---- MODULE Spec2Model ----
(***************************************************************************)
(* CodeState: the line classifier, the complexity proxy and the per-file   *)
(* analysis of tools/codestate_pr_report.py, and the contributor workload  *)
(* computation of codestate/cli.py.                                        *)
(*                                                                         *)
(* Text is modelled character by character: a line, an extension and a     *)
(* path are sequences of one-character strings, so strip(), startswith(),  *)
(* endswith(), `in` and lower() are computed as Python computes them.      *)
(***************************************************************************)
EXTENDS Integers, Sequences, FiniteSets, TLC

(***************************************************************************)
(* Bounds of the model.                                                    *)
(***************************************************************************)
MaxLines == 5
MaxFiles == 3
MaxMixed == 3
MaxAuthors == 14

(***************************************************************************)
(* Python string primitives.                                               *)
(***************************************************************************)
Whitespace == {" ", "\t"}

RECURSIVE LStrip(_)
LStrip(s) ==
  IF s = <<>> THEN <<>>
  ELSE IF Head(s) \in Whitespace THEN LStrip(Tail(s)) ELSE s

RECURSIVE RStrip(_)
RStrip(s) ==
  IF s = <<>> THEN <<>>
  ELSE IF s[Len(s)] \in Whitespace THEN RStrip(SubSeq(s, 1, Len(s) - 1)) ELSE s

Strip(s) == RStrip(LStrip(s))

StartsWith(s, p) == Len(s) >= Len(p) /\ SubSeq(s, 1, Len(p)) = p

EndsWith(s, p) == Len(s) >= Len(p) /\ SubSeq(s, Len(s) - Len(p) + 1, Len(s)) = p

Contains(s, p) == \E i \in 1..(Len(s) - Len(p) + 1) : SubSeq(s, i, i + Len(p) - 1) = p

UpperCase ==
  {"A", "B", "C", "D", "E", "F", "G", "H", "I", "J", "K", "L", "M",
   "N", "O", "P", "Q", "R", "S", "T", "U", "V", "W", "X", "Y", "Z"}

LowerOf ==
  [c \in UpperCase |->
     CASE c = "A" -> "a"
       [] c = "B" -> "b"
       [] c = "C" -> "c"
       [] c = "D" -> "d"
       [] c = "E" -> "e"
       [] c = "F" -> "f"
       [] c = "G" -> "g"
       [] c = "H" -> "h"
       [] c = "I" -> "i"
       [] c = "J" -> "j"
       [] c = "K" -> "k"
       [] c = "L" -> "l"
       [] c = "M" -> "m"
       [] c = "N" -> "n"
       [] c = "O" -> "o"
       [] c = "P" -> "p"
       [] c = "Q" -> "q"
       [] c = "R" -> "r"
       [] c = "S" -> "s"
       [] c = "T" -> "t"
       [] c = "U" -> "u"
       [] c = "V" -> "v"
       [] c = "W" -> "w"
       [] c = "X" -> "x"
       [] c = "Y" -> "y"
       [] c = "Z" -> "z"]

LowerChar(c) == IF c \in UpperCase THEN LowerOf[c] ELSE c

Lower(s) == [i \in 1..Len(s) |-> LowerChar(s[i])]

(***************************************************************************)
(* Comment tokens of estimate_comment_lines.                               *)
(***************************************************************************)
Hash == <<"#">>
SlashSlash == <<"/", "/">>
SlashStar == <<"/", "*">>
StarSlash == <<"*", "/">>
TripleSingle == <<"'", "'", "'">>
TripleDouble == <<"\"", "\"", "\"">>
MarkupOpen == <<"<", "!", "-", "-">>
MarkupClose == <<"-", "-", ">">>

block_start == {SlashStar, TripleSingle, TripleDouble}
block_end == {StarSlash, TripleSingle, TripleDouble}

PyExt == <<".", "p", "y">>
PyExtUpper == <<".", "P", "Y">>
JsExt == <<".", "j", "s">>
HtmlExt == <<".", "h", "t", "m", "l">>
ShExt == <<".", "s", "h">>

(***************************************************************************)
(* One iteration of the loop of estimate_comment_lines: st is the pair     *)
(* (comment, in_block) before the line, ext is already lower-cased.        *)
(***************************************************************************)
ClosesBlockTrailing(s) == \E tok \in {StarSlash, TripleSingle, TripleDouble} : EndsWith(s, tok)

ClosesBlock(s) == \E tok \in block_end : Contains(s, tok)

PyDocstringStaysOpen(s) == ~(EndsWith(s, TripleSingle) \/ EndsWith(s, TripleDouble))

CLikeBlockStaysOpen(s) == TRUE

CommentStepBlankCounted(ext, st, raw) ==
  LET s == Strip(raw)
      counted == [st EXCEPT !.comment = st.comment + 1]
  IN  IF st.in_block
        THEN [counted EXCEPT !.in_block = ~(\E tok \in block_end : Contains(s, tok))]
      ELSE IF s = <<>> THEN st
      ELSE IF ext \in {PyExt}
        THEN IF StartsWith(s, Hash) THEN counted
             ELSE IF StartsWith(s, TripleSingle) \/ StartsWith(s, TripleDouble)
               THEN [counted EXCEPT !.in_block =
                       ~(EndsWith(s, TripleSingle) \/ EndsWith(s, TripleDouble))]
             ELSE st
      ELSE IF StartsWith(s, SlashSlash) THEN counted
           ELSE IF StartsWith(s, SlashStar) \/ StartsWith(s, MarkupOpen)
             THEN [counted EXCEPT !.in_block = TRUE]
           ELSE st

(* the loop body with `#` taken as the line-comment token of shell files   *)
(* as well: what a per-family token table would compute                    *)
CommentStepHashInShell(ext, st, raw) ==
  LET s == Strip(raw)
      counted == [st EXCEPT !.comment = st.comment + 1]
  IN  IF s = <<>> THEN st
      ELSE IF st.in_block
        THEN [counted EXCEPT !.in_block = ~ClosesBlock(s)]
      ELSE IF ext \in {PyExt}
        THEN IF StartsWith(s, Hash) THEN counted
             ELSE IF StartsWith(s, TripleSingle) \/ StartsWith(s, TripleDouble)
               THEN [counted EXCEPT !.in_block = PyDocstringStaysOpen(s)]
             ELSE st
      ELSE IF StartsWith(s, SlashSlash) \/ (ext = ShExt /\ StartsWith(s, Hash)) THEN counted
           ELSE IF StartsWith(s, SlashStar) \/ StartsWith(s, MarkupOpen)
             THEN [counted EXCEPT !.in_block = CLikeBlockStaysOpen(s)]
           ELSE st

CommentStep(ext, st, raw) ==
  LET s == Strip(raw)
      counted == [st EXCEPT !.comment = st.comment + 1]
  IN  IF s = <<>> THEN st
      ELSE IF st.in_block
        THEN [counted EXCEPT !.in_block = ~ClosesBlock(s)]
      ELSE IF ext \in {PyExt}
        THEN IF StartsWith(s, Hash) THEN counted
             ELSE IF StartsWith(s, TripleSingle) \/ StartsWith(s, TripleDouble)
               THEN [counted EXCEPT !.in_block = PyDocstringStaysOpen(s)]
             ELSE st
      ELSE IF StartsWith(s, SlashSlash) THEN counted
           ELSE IF StartsWith(s, SlashStar) \/ StartsWith(s, MarkupOpen)
             THEN [counted EXCEPT !.in_block = CLikeBlockStaysOpen(s)]
           ELSE st

RECURSIVE CommentFold(_, _, _)
CommentFold(ext, st, lines) ==
  IF lines = <<>> THEN st
  ELSE CommentFold(ext, CommentStep(ext, st, Head(lines)), Tail(lines))

estimate_comment_lines(ext, lines) ==
  CommentFold(Lower(ext), [comment |-> 0, in_block |-> FALSE], lines).comment

(***************************************************************************)
(* estimate_complexity: every line is stripped, padded with one space on   *)
(* each side and lower-cased; each vocabulary token found in it adds one.  *)
(***************************************************************************)
COMPLEXITY_TOKENS ==
  {<<" ", "i", "f", " ">>,
   <<" ", "f", "o", "r", " ">>,
   <<" ", "w", "h", "i", "l", "e", " ">>,
   <<" ", "c", "a", "s", "e", " ">>,
   <<" ", "w", "h", "e", "n", " ">>,
   <<" ", "e", "l", "i", "f", " ">>,
   <<" ", "s", "w", "i", "t", "c", "h", " ">>,
   <<" ", "c", "a", "t", "c", "h", " ">>,
   <<" ", "t", "r", "y", " ">>,
   <<"&", "&">>,
   <<"|", "|">>,
   <<"?", ":">>,
   <<"?">>,
   <<" ", "a", "w", "a", "i", "t", " ">>,
   <<" ", "a", "s", "y", "n", "c", " ">>,
   <<" ", "y", "i", "e", "l", "d", " ">>,
   <<" ", "e", "x", "c", "e", "p", "t", " ">>,
   <<" ", "w", "i", "t", "h", " ">>,
   <<" ", "a", "n", "d", " ">>,
   <<" ", "o", "r", " ">>}

PaddedLower(raw) == Lower(<<" ">> \o Strip(raw) \o <<" ">>)

TokenHits(tok, s) == IF Contains(s, tok) THEN 1 ELSE 0

RECURSIVE SumHits(_, _)
SumHits(toks, s) ==
  IF toks = {} THEN 0
  ELSE LET tok == CHOOSE t \in toks : TRUE
       IN  TokenHits(tok, s) + SumHits(toks \ {tok}, s)

LineComplexity(raw) == SumHits(COMPLEXITY_TOKENS, PaddedLower(raw))

RECURSIVE estimate_complexity(_)
estimate_complexity(lines) ==
  IF lines = <<>> THEN 0
  ELSE LineComplexity(Head(lines)) + estimate_complexity(Tail(lines))

(***************************************************************************)
(* count_functions: the number of non-overlapping matches of each of the   *)
(* three FUNC_PATTERNS in the text of the file (its lines joined by        *)
(* newlines), matched case-insensitively, scanning left to right.          *)
(***************************************************************************)
LowerCase ==
  {"a", "b", "c", "d", "e", "f", "g", "h", "i", "j", "k", "l", "m",
   "n", "o", "p", "q", "r", "s", "t", "u", "v", "w", "x", "y", "z"}

Digits == {"0", "1", "2", "3", "4", "5", "6", "7", "8", "9"}

IsWordChar(c) == c \in LowerCase \cup UpperCase \cup Digits \cup {"_"}

IsSpaceChar(c) == c \in {" ", "\t", "\n"}

RECURSIVE JoinLines(_)
JoinLines(lines) ==
  IF lines = <<>> THEN <<>>
  ELSE IF Len(lines) = 1 THEN Head(lines)
  ELSE Head(lines) \o <<"\n">> \o JoinLines(Tail(lines))

WordBoundary(t, i) ==
  LET before == i > 1 /\ i - 1 <= Len(t) /\ IsWordChar(t[i - 1])
      after  == i >= 1 /\ i <= Len(t) /\ IsWordChar(t[i])
  IN  before # after

RECURSIVE SkipSpaces(_, _)
SkipSpaces(t, i) ==
  IF i <= Len(t) /\ IsSpaceChar(t[i]) THEN SkipSpaces(t, i + 1) ELSE i

RECURSIVE SkipWord(_, _)
SkipWord(t, i) ==
  IF i <= Len(t) /\ IsWordChar(t[i]) THEN SkipWord(t, i + 1) ELSE i

KeywordAt(t, i, kw) ==
  i + Len(kw) - 1 <= Len(t) /\ Lower(SubSeq(t, i, i + Len(kw) - 1)) = kw

KwDef == <<"d", "e", "f">>
KwFunction == <<"f", "u", "n", "c", "t", "i", "o", "n">>
KwClass == <<"c", "l", "a", "s", "s">>
KwInterface == <<"i", "n", "t", "e", "r", "f", "a", "c", "e">>
Arrow == <<"=", ">">>

(* \bdef\s+\w+\s*\(  : the position after the match that starts at i, or 0 *)
DefMatchEnd(t, i) ==
  IF WordBoundary(t, i) /\ KeywordAt(t, i, KwDef)
    THEN LET a == i + Len(KwDef)
             b == SkipSpaces(t, a)
             c == SkipWord(t, b)
             d == SkipSpaces(t, c)
         IN  IF b > a /\ c > b /\ d <= Len(t) /\ t[d] = "(" THEN d + 1 ELSE 0
    ELSE 0

(* \bfunction\b|=>\s*\( *)
FunctionMatchEnd(t, i) ==
  IF /\ WordBoundary(t, i)
     /\ KeywordAt(t, i, KwFunction)
     /\ WordBoundary(t, i + Len(KwFunction))
    THEN i + Len(KwFunction)
  ELSE IF i + 1 <= Len(t) /\ SubSeq(t, i, i + 1) = Arrow
    THEN LET d == SkipSpaces(t, i + 2)
         IN  IF d <= Len(t) /\ t[d] = "(" THEN d + 1 ELSE 0
  ELSE 0

(* \b(class|interface)\s+\w+\b *)
ClassMatchEnd(t, i) ==
  LET a == IF KeywordAt(t, i, KwClass) THEN i + Len(KwClass)
           ELSE IF KeywordAt(t, i, KwInterface) THEN i + Len(KwInterface)
           ELSE 0
  IN  IF WordBoundary(t, i) /\ a > 0
        THEN LET b == SkipSpaces(t, a)
                 c == SkipWord(t, b)
             IN  IF b > a /\ c > b THEN c ELSE 0
        ELSE 0

FUNC_PATTERNS == {"def", "function", "class"}

PatternMatchEnd(pat, t, i) ==
  CASE pat = "def" -> DefMatchEnd(t, i)
    [] pat = "function" -> FunctionMatchEnd(t, i)
    [] pat = "class" -> ClassMatchEnd(t, i)

RECURSIVE FindAll(_, _, _)
FindAll(pat, t, i) ==
  IF i > Len(t) THEN 0
  ELSE LET e == PatternMatchEnd(pat, t, i)
       IN  IF e > 0 THEN 1 + FindAll(pat, t, e) ELSE FindAll(pat, t, i + 1)

count_functions(text) ==
  FindAll("def", text, 1) + FindAll("function", text, 1) + FindAll("class", text, 1)

(***************************************************************************)
(* Path(f).suffix of pathlib: the part of the final component from its     *)
(* last dot, when that dot is neither its first nor its last character.    *)
(***************************************************************************)
RECURSIVE RFind(_, _, _)
RFind(s, c, i) ==
  IF i = 0 THEN 0 ELSE IF s[i] = c THEN i ELSE RFind(s, c, i - 1)

FinalName(p) == SubSeq(p, RFind(p, "/", Len(p)) + 1, Len(p))

Suffix(p) ==
  LET name == FinalName(p)
      i    == RFind(name, ".", Len(name))
  IN  IF 1 < i /\ i < Len(name) THEN SubSeq(name, i, Len(name)) ELSE <<>>

NoneExt == <<"<", "n", "o", "n", "e", ">">>

ExtOf(f) == IF Lower(Suffix(f)) = <<>> THEN NoneExt ELSE Lower(Suffix(f))

(***************************************************************************)
(* The lines the model feeds to the classifier.                            *)
(***************************************************************************)
EmptyLine == <<>>
WhiteLine == <<" ", "\t">>
HashLine == <<"#", " ", "c">>
HashIfLine == <<"#", " ", "i", "f", " ", "x">>
SlashLine == <<"/", "/", " ", "c">>
SlashIfLine == <<"/", "/", " ", "i", "f", " ", "x">>
COpenLine == <<"/", "*">>
COpenTextLine == <<"/", "*", " ", "c">>
CCloseLine == <<"*", "/">>
CCloseTextLine == <<"c", " ", "*", "/">>
COneLine == <<"/", "*", " ", "c", " ", "*", "/">>
DocOpenLine == <<"\"", "\"", "\"">>
DocOpenTextLine == <<"\"", "\"", "\"", "c">>
DocCloseTextLine == <<"c", "\"", "\"", "\"">>
DocOneLine == <<"\"", "\"", "\"", "c", "\"", "\"", "\"">>
DocSingleLine == <<"'", "'", "'">>
MarkupOpenLine == <<"<", "!", "-", "-">>
MarkupCloseLine == <<"-", "-", ">">>
MarkupOneLine == <<"<", "!", "-", "-", " ", "c", " ", "-", "-", ">">>
TextLine == <<"c">>
StarTextLine == <<" ", "*", " ", "c">>
CodeLine == <<"x", "=", "1">>
IndentedCodeLine == <<"\t", "x", "=", "1", " ">>
IfLine == <<"i", "f", " ", "a", " ", "&", "&", " ", "b", " ", "&", "&", " ", "c">>
UpperIfLine == <<"I", "F", " ", "a">>
TernaryLine == <<"a", " ", "?", ":", " ", "b">>
QuoteCodeLine == <<"x", "=", "'", "'", "'">>
CloseThenCodeLine == <<"*", "/", " ", "x">>

BlankLines == {EmptyLine, WhiteLine}

CodeLines == {CodeLine, IndentedCodeLine, IfLine, UpperIfLine, TernaryLine}

LineVocabulary ==
  {EmptyLine, WhiteLine, HashLine, HashIfLine,
   SlashLine, SlashIfLine, COpenLine, COpenTextLine,
   CCloseLine, CCloseTextLine, COneLine, DocOpenLine,
   DocOpenTextLine, DocCloseTextLine, DocOneLine, DocSingleLine,
   MarkupOpenLine, MarkupCloseLine, MarkupOneLine, TextLine,
   StarTextLine, CodeLine, IndentedCodeLine, IfLine,
   UpperIfLine, TernaryLine, QuoteCodeLine, CloseThenCodeLine}

Exts == {PyExt, PyExtUpper, JsExt, HtmlExt, ShExt}

(***************************************************************************)
(* The comment syntax the specification assigns to each extension family,  *)
(* used to write synthetic files: the line-comment lines and the three     *)
(* lines of a block comment, delimiters alone on their lines or not.       *)
(***************************************************************************)
LineCommentLines(e) ==
  IF Lower(e) \in {PyExt, ShExt} THEN {HashLine, HashIfLine}
  ELSE IF Lower(e) = JsExt THEN {SlashLine, SlashIfLine}
  ELSE {}

BlockStyles(e) ==
  IF Lower(e) = PyExt
    THEN {<<DocOpenLine, TextLine, DocOpenLine>>,
          <<DocSingleLine, TextLine, DocSingleLine>>,
          <<DocOpenTextLine, TextLine, DocCloseTextLine>>}
  ELSE IF Lower(e) = JsExt
    THEN {<<COpenLine, StarTextLine, CCloseLine>>,
          <<COpenTextLine, TextLine, CCloseTextLine>>}
  ELSE IF Lower(e) = HtmlExt
    THEN {<<MarkupOpenLine, TextLine, MarkupCloseLine>>}
  ELSE {}

(***************************************************************************)
(* State.  The classifier run over one file: the two loops of              *)
(* analyze_files (estimate_comment_lines, estimate_complexity) read the    *)
(* same list of lines, one line per step.                                  *)
(*   ext, total_lines, comment, in_block, score : the program's values     *)
(*   opener : the start token that opened the block the run is inside      *)
(*   last   : the line just read and the values before it                  *)
(*   shape  : what the file read so far is made of                         *)
(***************************************************************************)
VARIABLES ext, total_lines, comment, in_block, score, opener, last, shape

classifierVars == <<ext, total_lines, comment, in_block, score, opener, last, shape>>

(***************************************************************************)
(* State of a call of analyze_files.                                       *)
(*   files    : the argument;  pos : the index of the next file            *)
(*   by_ext, per_file : the two results being built                        *)
(*   reads    : how read_lines ended for each file analysed so far         *)
(*   apc      : "idle", "loop" (inside the for loop) or "returned"         *)
(***************************************************************************)
VARIABLES files, pos, by_ext, per_file, reads, apc, runs

analyzeVars == <<files, pos, by_ext, per_file, reads, apc, runs>>

(***************************************************************************)
(* State of the --contributors-detail branch of the CLI.                   *)
(*   stats : the list returned by analyzer.get_contributor_stats()         *)
(*   rows  : the rows handed to print_table, each with its score (in       *)
(*           twentieths) and its workload_percent (in tenths of a percent) *)
(*   wout  : "none", "no_data" (the no-data message) or "table"            *)
(***************************************************************************)
VARIABLES stats, rows, wout

workloadVars == <<stats, rows, wout>>

(* tools/codestate_pr_report.py main(): where it stands, the commit range  *)
(* it settled on, the regular files of the work tree, what the git calls   *)
(* of list_changed_files returned, the files written and the value         *)
(* returned (-1 until main returns).                                       *)
VARIABLES rpc, shas, present, gitlog, written, rc

reporterVars == <<rpc, shas, present, gitlog, written, rc>>

(* The duplicate detector: the files it scans (layout says how they were   *)
(* put together), the file and window it stands at, the mapping from block *)
(* key to occurrences in insertion order, and the groups it returns.       *)
VARIABLES dfiles, layout, dfi, dwi, hash_map, groups, dpc

dupVars == <<dfiles, layout, dfi, dwi, hash_map, groups, dpc>>

(* codestate.cli main(): the parsed arguments, the project it is run on,   *)
(* the place it has reached, its list data, what it has printed or written *)
(* so far, and the exit status of the process (-1 while it runs).          *)
VARIABLES cargs, project, cpc, data, cout, status

cliVars == <<cargs, project, cpc, data, cout, status>>

vars == <<classifierVars, analyzeVars, workloadVars, reporterVars, dupVars, cliVars>>

NoToken == <<>>

StartTokens == {SlashStar, MarkupOpen, TripleSingle, TripleDouble}

StartTokenOf(s) ==
  IF \E tok \in StartTokens : StartsWith(s, tok)
    THEN CHOOSE tok \in StartTokens : StartsWith(s, tok)
    ELSE NoToken

NoLine == [read |-> FALSE, line |-> <<>>, in_block |-> FALSE, opener |-> NoToken,
           total |-> 0, d_comment |-> 0, d_score |-> 0]

EmptyShape == [blank |-> 0, linec |-> 0, code |-> 0, block |-> 0,
               style |-> <<>>, other |-> FALSE]

FreeShape == [EmptyShape EXCEPT !.other = TRUE]

ClassifierInit ==
  /\ ext \in Exts
  /\ total_lines = 0
  /\ comment = 0
  /\ in_block = FALSE
  /\ score = 0
  /\ opener = NoToken
  /\ last = NoLine
  /\ shape = EmptyShape

(***************************************************************************)
(* The complexity of each line of the vocabulary, computed once.           *)
(***************************************************************************)
ComplexityOf == [raw \in LineVocabulary |-> LineComplexity(raw)]

(***************************************************************************)
(* Reading one line: one iteration of each loop.                           *)
(***************************************************************************)
Read(raw) ==
  LET st == CommentStep(Lower(ext), [comment |-> comment, in_block |-> in_block], raw)
      c  == ComplexityOf[raw]
  IN  /\ total_lines < MaxLines
      /\ total_lines' = total_lines + 1
      /\ comment' = st.comment
      /\ in_block' = st.in_block
      /\ score' = score + c
      /\ opener' = IF st.in_block
                     THEN (IF in_block THEN opener ELSE StartTokenOf(Strip(raw)))
                     ELSE NoToken
      /\ last' = [read |-> TRUE, line |-> raw, in_block |-> in_block,
                  opener |-> opener, total |-> total_lines,
                  d_comment |-> st.comment - comment, d_score |-> c]
      /\ UNCHANGED <<ext, analyzeVars, workloadVars, reporterVars, dupVars, cliVars>>

ReadBlank ==
  /\ ~shape.other
  /\ shape.block \in {0, 3}
  /\ \E raw \in BlankLines : Read(raw)
  /\ shape' = [shape EXCEPT !.blank = @ + 1]

ReadLineComment ==
  /\ ~shape.other
  /\ shape.block \in {0, 3}
  /\ \E raw \in LineCommentLines(ext) : Read(raw)
  /\ shape' = [shape EXCEPT !.linec = @ + 1]

ReadCode ==
  /\ ~shape.other
  /\ shape.block \in {0, 3}
  /\ \E raw \in CodeLines : Read(raw)
  /\ shape' = [shape EXCEPT !.code = @ + 1]

ReadBlockLine ==
  /\ ~shape.other
  /\ shape.block < 3
  /\ \E style \in BlockStyles(ext) :
       /\ shape.block = 0 \/ style = shape.style
       /\ Read(style[shape.block + 1])
       /\ shape' = [shape EXCEPT !.block = @ + 1, !.style = style]

ReadAny ==
  /\ \E raw \in LineVocabulary : Read(raw)
  /\ shape' = FreeShape

Next ==
  \/ ReadBlank
  \/ ReadLineComment
  \/ ReadCode
  \/ ReadBlockLine
  \/ ReadAny

AnalyzeIdle ==
  /\ files = <<>>
  /\ pos = 1
  /\ by_ext = <<>>
  /\ per_file = <<>>
  /\ reads = <<>>
  /\ apc = "idle"
  /\ runs = <<>>

WorkloadIdle ==
  /\ stats = <<>>
  /\ rows = <<>>
  /\ wout = "none"

NotRun == [code |-> 0, out |-> <<>>, ran |-> FALSE]

ReporterIdle ==
  /\ rpc = "idle"
  /\ shas = [base |-> "", head |-> ""]
  /\ present = {}
  /\ gitlog = [range |-> NotRun, plain |-> NotRun]
  /\ written = <<>>
  /\ rc = -1

NoLayout == [shared |-> 0, lead |-> <<0, 0>>, tail |-> <<0, 0>>, padded |-> FALSE]

DupIdle ==
  /\ dfiles = <<>>
  /\ layout = NoLayout
  /\ dfi = 1
  /\ dwi = 1
  /\ hash_map = <<>>
  /\ groups = <<>>
  /\ dpc = "idle"

NoReport == [available |-> FALSE, score |-> 0]

NoProject ==
  [tree |-> <<>>, violations |-> {}, functions |-> <<>>, dead |-> {}, report |-> NoReport,
   routes |-> FALSE, changed |-> <<>>, trend |-> <<>>, contributors |-> <<>>,
   suggestions |-> <<>>, style |-> <<>>, security |-> <<>>, advanced |-> <<>>]

CliIdle ==
  /\ cargs = <<>>
  /\ project = NoProject
  /\ cpc = "idle"
  /\ data = <<>>
  /\ cout = <<>>
  /\ status = -1

Init == ClassifierInit /\ AnalyzeIdle /\ WorkloadIdle /\ ReporterIdle /\ DupIdle /\ CliIdle

Spec == Init /\ [][Next]_vars

(***************************************************************************)
(* analyze_files over a list of changed files.                             *)
(***************************************************************************)
DefLine == <<"d", "e", "f", " ", "f", "(", "x", ")", ":">>
FunctionLine == <<"f", "u", "n", "c", "t", "i", "o", "n", " ", "g", "(", ")", " ", "{">>
ClassLine == <<"c", "l", "a", "s", "s", " ", "A">>
DefWordLine == <<"d", "e", "f">>
CallLine == <<"f", "(">>

PathPy == <<"a", ".", "p", "y">>
PathPyUpper == <<"s", "r", "c", "/", "B", ".", "P", "Y">>
PathJs == <<"c", ".", "j", "s">>
PathNoSuffix == <<"d">>

PathPng == <<"i", ".", "p", "n", "g">>

Paths == {PathPy, PathPyUpper, PathJs, PathNoSuffix}

KnownPaths == Paths \cup {PathPng}

Content ==
  [p \in KnownPaths |->
     CASE p = PathPy -> <<HashIfLine, DefLine, IfLine, WhiteLine>>
       [] p = PathPyUpper -> <<DocOpenTextLine, TextLine, DocCloseTextLine, CodeLine>>
       [] p = PathJs -> <<COneLine, FunctionLine, ClassLine>>
       [] p = PathNoSuffix -> <<DefWordLine, CallLine>>
       [] p = PathPng -> <<CallLine>>]

(* How a call of read_lines ends: the UTF-8 read succeeds, or it raises and *)
(* the latin-1 read succeeds, or both raise.                                *)
ReadOutcomes == {"utf8", "latin1", "fail"}

read_lines_no_fallback(path, outcome) ==
  IF outcome = "utf8" THEN Content[path] ELSE <<>>

read_lines(path, outcome) ==
  IF outcome = "utf8" THEN Content[path]
  ELSE IF outcome = "latin1" THEN Content[path]
  ELSE <<>>

FileRecord(f, lines) ==
  [file |-> f,
   ext |-> ExtOf(f),
   total_lines |-> Len(lines),
   comment_lines |-> estimate_comment_lines(ExtOf(f), lines),
   function_count |-> count_functions(JoinLines(lines)),
   complexity |-> estimate_complexity(lines)]

NewAggregate(e) ==
  [ext |-> e, file_count |-> 0, total_lines |-> 0, comment_lines |-> 0,
   function_count |-> 0]

Aggregate(by, pf) ==
  LET agg == IF pf.ext \in DOMAIN by THEN by[pf.ext] ELSE NewAggregate(pf.ext)
      upd == [agg EXCEPT !.file_count = @ + 1,
                         !.total_lines = @ + pf.total_lines,
                         !.comment_lines = @ + pf.comment_lines,
                         !.function_count = @ + pf.function_count]
  IN  [e \in DOMAIN by \cup {pf.ext} |-> IF e = pf.ext THEN upd ELSE by[e]]

RECURSIVE FileLists(_)
FileLists(n) ==
  IF n = 0 THEN {<<>>}
  ELSE LET shorter == FileLists(n - 1)
       IN  shorter \cup {Append(l, p) : l \in {x \in shorter : Len(x) = n - 1}, p \in Paths}

AnalyzeInit ==
  /\ files \in FileLists(MaxFiles)
  /\ pos = 1
  /\ by_ext = <<>>
  /\ per_file = <<>>
  /\ reads = <<>>
  /\ apc = "loop"
  /\ runs = <<>>

ClassifierIdle ==
  /\ ext = <<>>
  /\ total_lines = 0
  /\ comment = 0
  /\ in_block = FALSE
  /\ score = 0
  /\ opener = NoToken
  /\ last = NoLine
  /\ shape = EmptyShape

(* the record analyze_files appends for each path and read outcome *)
RecordOf ==
  [pr \in KnownPaths \X ReadOutcomes |-> FileRecord(pr[1], read_lines(pr[1], pr[2]))]

AnalyzeNextFile ==
  /\ apc = "loop"
  /\ pos <= Len(files)
  /\ \E outcome \in ReadOutcomes :
       LET f  == files[pos]
           pf == RecordOf[<<f, outcome>>]
       IN  /\ per_file' = Append(per_file, pf)
           /\ by_ext' = Aggregate(by_ext, pf)
           /\ reads' = Append(reads, outcome)
  /\ pos' = pos + 1
  /\ UNCHANGED <<files, apc, runs, classifierVars, workloadVars, reporterVars, dupVars, cliVars>>

AnalyzeReturn ==
  /\ apc = "loop"
  /\ pos > Len(files)
  /\ apc' = "returned"
  /\ UNCHANGED <<files, pos, by_ext, per_file, reads, runs, classifierVars, workloadVars, reporterVars, dupVars, cliVars>>

NextAnalyze ==
  \/ AnalyzeNextFile
  \/ AnalyzeReturn

InitAnalyze == ClassifierIdle /\ AnalyzeInit /\ WorkloadIdle /\ ReporterIdle /\ DupIdle /\ CliIdle

SpecAnalyze == InitAnalyze /\ [][NextAnalyze]_vars

(***************************************************************************)
(* A second call of analyze_files on the same list.  The results of the    *)
(* first call are kept in runs for comparison; the call itself starts from *)
(* the dictionaries and lists its first two statements create.             *)
(***************************************************************************)
MaxRerunFiles == 2

AnalyzeAgainCarrying ==
  /\ apc = "returned"
  /\ runs = <<>>
  /\ runs' = <<[per_file |-> per_file, by_ext |-> by_ext, reads |-> reads]>>
  /\ by_ext' = by_ext
  /\ per_file' = <<>>
  /\ reads' = <<>>
  /\ pos' = 1
  /\ apc' = "loop"
  /\ UNCHANGED <<files, classifierVars, workloadVars, reporterVars, dupVars, cliVars>>

AnalyzeAgain ==
  /\ apc = "returned"
  /\ runs = <<>>
  /\ runs' = <<[per_file |-> per_file, by_ext |-> by_ext, reads |-> reads]>>
  /\ by_ext' = <<>>
  /\ per_file' = <<>>
  /\ reads' = <<>>
  /\ pos' = 1
  /\ apc' = "loop"
  /\ UNCHANGED <<files, classifierVars, workloadVars, reporterVars, dupVars, cliVars>>

RerunInit ==
  /\ files \in FileLists(MaxRerunFiles)
  /\ pos = 1
  /\ by_ext = <<>>
  /\ per_file = <<>>
  /\ reads = <<>>
  /\ apc = "loop"
  /\ runs = <<>>

NextRerun ==
  \/ AnalyzeNextFile
  \/ AnalyzeReturn
  \/ AnalyzeAgain

InitRerun == ClassifierIdle /\ RerunInit /\ WorkloadIdle /\ ReporterIdle /\ DupIdle /\ CliIdle

SpecRerun == InitRerun /\ [][NextRerun]_vars

(***************************************************************************)
(* The PR reporter: main() settles the commit range, list_changed_files    *)
(* asks git for the changed paths and keeps the supported regular files,   *)
(* analyze_files runs over them (the actions above), and the three reports *)
(* are written.  What git prints and which files exist is the environment. *)
(***************************************************************************)
MaxDiff == 2

SUPPORTED_EXTS ==
  {<<".", "p", "y">>,
   <<".", "j", "s">>,
   <<".", "t", "s">>,
   <<".", "j", "s", "x">>,
   <<".", "t", "s", "x">>,
   <<".", "m", "j", "s">>,
   <<".", "c", "j", "s">>,
   <<".", "j", "a", "v", "a">>,
   <<".", "c">>,
   <<".", "h">>,
   <<".", "c", "p", "p">>,
   <<".", "h", "p", "p">>,
   <<".", "c", "c">>,
   <<".", "c", "s">>,
   <<".", "g", "o">>,
   <<".", "r", "b">>,
   <<".", "p", "h", "p">>,
   <<".", "r", "s">>,
   <<".", "k", "t">>,
   <<".", "s", "w", "i", "f", "t">>,
   <<".", "m">>,
   <<".", "m", "m">>,
   <<".", "s", "c", "a", "l", "a">>,
   <<".", "s", "h">>,
   <<".", "b", "a", "s", "h">>,
   <<".", "z", "s", "h">>,
   <<".", "p", "s", "1">>,
   <<".", "p", "s", "m", "1">>,
   <<".", "p", "l">>,
   <<".", "p", "m">>,
   <<".", "r">>,
   <<".", "j", "l">>,
   <<".", "l", "u", "a">>,
   <<".", "e", "x">>,
   <<".", "e", "x", "s">>,
   <<".", "h", "s">>,
   <<".", "e", "r", "l">>,
   <<".", "c", "l", "j">>,
   <<".", "g", "r", "o", "o", "v", "y">>,
   <<".", "d", "a", "r", "t">>,
   <<".", "s", "q", "l">>,
   <<".", "c", "s", "s">>,
   <<".", "s", "c", "s", "s">>,
   <<".", "s", "a", "s", "s">>,
   <<".", "l", "e", "s", "s">>,
   <<".", "h", "t", "m", "l">>,
   <<".", "v", "u", "e">>,
   <<".", "s", "v", "e", "l", "t", "e">>,
   <<".", "h", "b", "s">>,
   <<".", "e", "j", "s">>,
   <<".", "j", "i", "n", "j", "a">>,
   <<".", "j", "i", "n", "j", "a", "2">>,
   <<".", "n", "j", "k">>}

(* the names git prints; a name may begin with a blank *)
PaddedPy == <<" ">> \o PathPy

DiffLines == {PathPy, PathPyUpper, PathNoSuffix, PathPng, PaddedPy, EmptyLine}

RECURSIVE DiffOutputs(_)
DiffOutputs(n) ==
  IF n = 0 THEN {<<>>}
  ELSE LET shorter == DiffOutputs(n - 1)
       IN  shorter \cup {Append(o, l) : o \in {x \in shorter : Len(x) = n - 1}, l \in DiffLines}

GitFailed == [code |-> 128, out |-> <<>>, ran |-> TRUE]

GitResults == {[code |-> 0, out |-> o, ran |-> TRUE] : o \in DiffOutputs(MaxDiff)} \cup {GitFailed}

(* [line.strip() for line in out.splitlines() if line.strip()] *)
StrippedLines(out) ==
  SelectSeq([i \in 1..Len(out) |-> Strip(out[i])], LAMBDA l : l # <<>>)

(* str(Path(f)): empty and "." components are dropped *)
RECURSIVE SplitPath(_, _)
SplitPath(s, part) ==
  IF s = <<>> THEN <<part>>
  ELSE IF Head(s) = "/" THEN <<part>> \o SplitPath(Tail(s), <<>>)
  ELSE SplitPath(Tail(s), Append(part, Head(s)))

RECURSIVE JoinParts(_)
JoinParts(ps) ==
  IF ps = <<>> THEN <<>>
  ELSE IF Len(ps) = 1 THEN ps[1]
  ELSE ps[1] \o <<"/">> \o JoinParts(Tail(ps))

PathStr(f) ==
  LET body == JoinParts(SelectSeq(SplitPath(f, <<>>), LAMBDA x : x # <<>> /\ x # <<".">>))
  IN  IF f # <<>> /\ f[1] = "/" THEN <<"/">> \o body
      ELSE IF body = <<>> THEN <<".">>
      ELSE body

list_changed_files_no_fallback(first, second, regular) ==
  LET names == StrippedLines(first.out)
      kept  == SelectSeq(names, LAMBDA f : /\ Lower(Suffix(PathStr(f))) \in SUPPORTED_EXTS
                                           /\ PathStr(f) \in regular)
  IN  [i \in 1..Len(kept) |-> PathStr(kept[i])]

list_changed_files_any_suffix(first, second, regular) ==
  LET out   == IF first.code # 0 THEN second.out ELSE first.out
      names == StrippedLines(out)
      kept  == SelectSeq(names, LAMBDA f : PathStr(f) \in regular)
  IN  [i \in 1..Len(kept) |-> PathStr(kept[i])]

(* first: the result of git diff base..head; second: of the plain git diff *)
(* that is run when the first exits non-zero; regular: the regular files   *)
list_changed_files(first, second, regular) ==
  LET out   == IF first.code # 0 THEN second.out ELSE first.out
      names == StrippedLines(out)
      kept  == SelectSeq(names, LAMBDA f : /\ Lower(Suffix(PathStr(f))) \in SUPPORTED_EXTS
                                           /\ PathStr(f) \in regular)
  IN  [i \in 1..Len(kept) |-> PathStr(kept[i])]

(* main 283-291: the environment's shas, else whatever git rev-parse gives *)
ResolveRange(env_base, env_head, rev_base, rev_head) ==
  IF env_base = "" \/ env_head = ""
    THEN [base |-> IF rev_base # "" THEN rev_base ELSE env_base,
          head |-> IF rev_head # "" THEN rev_head ELSE env_head]
    ELSE [base |-> env_base, head |-> env_head]

NoChanges == "No supported code changes detected."

render_markdown(by, pf) ==
  IF pf = <<>>
    THEN [title |-> "## CodeState PR Report", body |-> NoChanges,
          ext_rows |-> 0, heat_rows |-> 0]
    ELSE [title |-> "## CodeState PR Report", body |-> "tables",
          ext_rows |-> Cardinality(DOMAIN by),
          heat_rows |-> IF Len(pf) < 10 THEN Len(pf) ELSE 10]

render_html(by, pf) == [file_rows |-> Len(pf), ext_rows |-> Cardinality(DOMAIN by)]

Payload(range, by, pf) ==
  [base |-> range.base, head |-> range.head, file_count |-> Len(pf),
   by_ext |-> Cardinality(DOMAIN by), per_file |-> Len(pf)]

(* the paths a diff output names, of which any may be a regular file *)
Named(out) == {PathStr(StrippedLines(out)[i]) : i \in 1..Len(StrippedLines(out))}

(* every named path is a regular file, or all but one of them are *)
Regular(names) == {names} \cup {names \ {n} : n \in names}

ReporterInit ==
  /\ rpc = "start"
  /\ shas = [base |-> "", head |-> ""]
  /\ present = {}
  /\ gitlog = [range |-> NotRun, plain |-> NotRun]
  /\ written = <<>>
  /\ rc = -1

ReadEnvironment ==
  /\ rpc = "start"
  /\ \E env \in {<<"env_base", "env_head">>, <<"", "">>},
        rev \in {<<"head~1", "head">>, <<"", "head">>, <<"", "">>} :
       shas' = ResolveRange(env[1], env[2], rev[1], rev[2])
  /\ rpc' = "list"
  /\ UNCHANGED <<present, gitlog, written, rc, classifierVars, analyzeVars, workloadVars, dupVars, cliVars>>

ListChangedFiles ==
  /\ rpc = "list"
  /\ \E first \in GitResults :
       \E second \in IF first.code # 0 THEN GitResults ELSE {NotRun} :
         \E regular \in Regular(Named(IF first.code # 0 THEN second.out ELSE first.out)) :
           /\ gitlog' = [range |-> first, plain |-> second]
           /\ present' = regular
           /\ files' = list_changed_files(first, second, regular)
  /\ pos' = 1
  /\ by_ext' = <<>>
  /\ per_file' = <<>>
  /\ reads' = <<>>
  /\ apc' = "loop"
  /\ rpc' = "analyze"
  /\ UNCHANGED <<shas, written, rc, runs, classifierVars, workloadVars, dupVars, cliVars>>

WriteReports ==
  /\ rpc = "analyze"
  /\ apc = "returned"
  /\ written' = [md   |-> render_markdown(by_ext, per_file),
                 html |-> render_html(by_ext, per_file),
                 json |-> Payload(shas, by_ext, per_file)]
  /\ rc' = 0
  /\ rpc' = "done"
  /\ UNCHANGED <<shas, present, gitlog, classifierVars, analyzeVars, workloadVars, dupVars, cliVars>>

NextReporter ==
  \/ ReadEnvironment
  \/ ListChangedFiles
  \/ AnalyzeNextFile
  \/ AnalyzeReturn
  \/ WriteReports

InitReporter == ClassifierIdle /\ AnalyzeIdle /\ WorkloadIdle /\ ReporterInit /\ DupIdle /\ CliIdle

SpecReporter == InitReporter /\ [][NextReporter]_vars

(***************************************************************************)
(* --contributors-detail: the workload score and share of each author.     *)
(* A field of an author's record is a number, a non-numeric value (float() *)
(* raises and the field is skipped) or absent (s.get(f, 0) gives 0).       *)
(* The weights 0.25 0.20 0.25 0.15 0.05 0.10 are kept as twentieths.       *)
(***************************************************************************)
Num(n) == [kind |-> "num", val |-> n]
NotNumeric == [kind |-> "text", val |-> 0]

WeightLineCount == 5
WeightCommitCount == 4
WeightAddedLines == 5
WeightDeletedLines == 3
WeightActiveDays == 1
WeightMaxFileLines == 2

weights ==
  [line_count |-> WeightLineCount, commit_count |-> WeightCommitCount,
   added_lines |-> WeightAddedLines, deleted_lines |-> WeightDeletedLines,
   active_days_last_30 |-> WeightActiveDays, max_file_lines |-> WeightMaxFileLines]

numeric_fields == DOMAIN weights

FieldScore(s, f) ==
  IF f \in DOMAIN s /\ s[f].kind = "num" THEN s[f].val * weights[f] ELSE 0

RECURSIVE SumFields(_, _)
SumFields(s, fs) ==
  IF fs = {} THEN 0
  ELSE LET f == CHOOSE x \in fs : TRUE
       IN  FieldScore(s, f) + SumFields(s, fs \ {f})

WorkloadScore(s) == SumFields(s, numeric_fields)

RECURSIVE TotalScore(_)
TotalScore(ss) ==
  IF ss = <<>> THEN 0 ELSE WorkloadScore(Head(ss)) + TotalScore(Tail(ss))

(* f"{x:.1f}" of x = score/total*100, in tenths: the nearest tenth; when x *)
(* lies exactly half way the binary rounding error of the division decides *)
(* and either neighbour may be printed.                                    *)
TruncatedTenths(sc, total) == {(1000 * sc) \div total}

RoundedTenths(sc, total) ==
  LET twice == (2000 * sc) \div total
  IN  IF twice * total = 2000 * sc /\ twice % 2 = 1
        THEN {(twice - 1) \div 2, (twice + 1) \div 2}
        ELSE {(twice + 1) \div 2}

PercentChoices(sc, total) == IF total > 0 THEN RoundedTenths(sc, total) ELSE {0}

RECURSIVE RowChoices(_, _, _)
RowChoices(ss, i, total) ==
  IF i > Len(ss) THEN {<<>>}
  ELSE {<<[author |-> i, score |-> WorkloadScore(ss[i]), workload_percent |-> pct]>> \o rest :
          pct \in PercentChoices(WorkloadScore(ss[i]), total),
          rest \in RowChoices(ss, i + 1, total)}

AppendUnsorted(sorted, r) == Append(sorted, r)

(* sorted(stats, key=score, reverse=True): stable, larger scores first *)
RECURSIVE InsertByScore(_, _)
InsertByScore(sorted, r) ==
  IF sorted = <<>> THEN <<r>>
  ELSE IF Head(sorted).score >= r.score
    THEN <<Head(sorted)>> \o InsertByScore(Tail(sorted), r)
    ELSE <<r>> \o sorted

RECURSIVE SortedByScore(_)
SortedByScore(rs) ==
  IF rs = <<>> THEN <<>>
  ELSE InsertByScore(SortedByScore(SubSeq(rs, 1, Len(rs) - 1)), rs[Len(rs)])

AuthorActive == [active_days_last_30 |-> Num(1), line_count |-> Num(0)]

AuthorDeleter == [deleted_lines |-> Num(1), commit_count |-> NotNumeric]

AuthorOwner ==
  [line_count |-> Num(1), commit_count |-> Num(1), added_lines |-> Num(0),
   deleted_lines |-> Num(0), active_days_last_30 |-> Num(0), max_file_lines |-> Num(0)]

AuthorIdle == [line_count |-> Num(0), commit_count |-> NotNumeric]

Profiles == {AuthorActive, AuthorDeleter, AuthorOwner, AuthorIdle}

WorkloadInit ==
  /\ stats = <<>>
  /\ rows = <<>>
  /\ wout = "none"

(* the list get_contributor_stats() returns: any authors up to MaxMixed,   *)
(* then authors with the same numbers as the last one, up to MaxAuthors    *)
AddAuthor ==
  /\ wout = "none"
  /\ Len(stats) < MaxMixed
  /\ \E p \in Profiles : stats' = Append(stats, p)
  /\ UNCHANGED <<rows, wout, classifierVars, analyzeVars, reporterVars, dupVars, cliVars>>

AddPeer ==
  /\ wout = "none"
  /\ Len(stats) >= MaxMixed
  /\ Len(stats) < MaxAuthors
  /\ stats' = Append(stats, stats[Len(stats)])
  /\ UNCHANGED <<rows, wout, classifierVars, analyzeVars, reporterVars, dupVars, cliVars>>

ContributorsDetailNoData ==
  /\ wout = "none"
  /\ stats = <<>>
  /\ wout' = "no_data"
  /\ UNCHANGED <<stats, rows, classifierVars, analyzeVars, reporterVars, dupVars, cliVars>>

ContributorsDetail ==
  /\ wout = "none"
  /\ stats # <<>>
  /\ \E rs \in RowChoices(stats, 1, TotalScore(stats)) : rows' = SortedByScore(rs)
  /\ wout' = "table"
  /\ UNCHANGED <<stats, classifierVars, analyzeVars, reporterVars, dupVars, cliVars>>

NextWorkload ==
  \/ AddAuthor
  \/ AddPeer
  \/ ContributorsDetailNoData
  \/ ContributorsDetail

InitWorkload == ClassifierIdle /\ AnalyzeIdle /\ WorkloadInit /\ ReporterIdle /\ DupIdle /\ CliIdle

SpecWorkload == InitWorkload /\ [][NextWorkload]_vars

(***************************************************************************)
(* The duplicate detector (spec 4.3).  A window of BlockSize lines slides  *)
(* with stride 1 over each file in discovery order; the key of a window is *)
(* its lines with trailing whitespace trimmed; every key seen at two or    *)
(* more places becomes a group, in the order the keys were first seen.     *)
(* The files scanned here are two files built around a shared run of       *)
(* lines: lead[f] lines of their own, the shared lines, tail[f] lines of   *)
(* their own.                                                              *)
(***************************************************************************)
BlockSize == 5

MaxShared == 6

MaxPad == 2

Digit(k) == <<"0", "1", "2", "3", "4", "5", "6", "7", "8", "9">>[k + 1]

SharedLine(k, padded) == IF padded THEN <<"s", Digit(k), " ">> ELSE <<"s", Digit(k)>>

OwnLine(letter, k) == <<letter, Digit(k)>>

BuildFile(f, lay) ==
  [k \in 1..lay.lead[f] |-> OwnLine(<<"a", "b">>[f], k)]
    \o [k \in 1..lay.shared |-> SharedLine(k, f = 2 /\ lay.padded)]
    \o [k \in 1..lay.tail[f] |-> OwnLine(<<"x", "y">>[f], k)]

Layouts ==
  [shared : 0..MaxShared, lead : (0..MaxPad) \X (0..MaxPad),
   tail : (0..1) \X (0..1), padded : BOOLEAN]

HasWindowShort(lines, i) == i + BlockSize <= Len(lines)

(* a window starts at line i when BlockSize lines are left from there *)
HasWindow(lines, i) == i + BlockSize - 1 <= Len(lines)

BlockKey(lines, i) == [k \in 1..BlockSize |-> RStrip(lines[i + k - 1])]

BlockText(lines, i) == SubSeq(lines, i, i + BlockSize - 1)

KeyIndex(hm, key) ==
  IF \E n \in 1..Len(hm) : hm[n].key = key
    THEN CHOOSE n \in 1..Len(hm) : hm[n].key = key
    ELSE 0

Recorded(hm, key, occ) ==
  IF KeyIndex(hm, key) = 0
    THEN Append(hm, [key |-> key, occs |-> <<occ>>])
    ELSE [hm EXCEPT ![KeyIndex(hm, key)].occs = Append(@, occ)]

DuplicateGroups(hm) == SelectSeq(hm, LAMBDA e : Len(e.occs) >= 2)

DupInit ==
  /\ layout \in Layouts
  /\ dfiles = <<BuildFile(1, layout), BuildFile(2, layout)>>
  /\ dfi = 1
  /\ dwi = 1
  /\ hash_map = <<>>
  /\ groups = <<>>
  /\ dpc = "scan"

ScanWindow ==
  /\ dpc = "scan"
  /\ dfi <= Len(dfiles)
  /\ HasWindow(dfiles[dfi], dwi)
  /\ hash_map' = Recorded(hash_map, BlockKey(dfiles[dfi], dwi),
                          [path |-> dfi, start_line |-> dwi,
                           block_text |-> BlockText(dfiles[dfi], dwi)])
  /\ dwi' = dwi + 1
  /\ UNCHANGED <<dfiles, layout, dfi, groups, dpc,
                 classifierVars, analyzeVars, workloadVars, reporterVars, cliVars>>

ScanNextFile ==
  /\ dpc = "scan"
  /\ dfi <= Len(dfiles)
  /\ ~HasWindow(dfiles[dfi], dwi)
  /\ dfi' = dfi + 1
  /\ dwi' = 1
  /\ UNCHANGED <<dfiles, layout, hash_map, groups, dpc,
                 classifierVars, analyzeVars, workloadVars, reporterVars, cliVars>>

CollectGroups ==
  /\ dpc = "scan"
  /\ dfi > Len(dfiles)
  /\ groups' = DuplicateGroups(hash_map)
  /\ dpc' = "done"
  /\ UNCHANGED <<dfiles, layout, dfi, dwi, hash_map,
                 classifierVars, analyzeVars, workloadVars, reporterVars, cliVars>>

NextDup ==
  \/ ScanWindow
  \/ ScanNextFile
  \/ CollectGroups

InitDup == ClassifierIdle /\ AnalyzeIdle /\ WorkloadIdle /\ ReporterIdle /\ DupInit /\ CliIdle

SpecDup == InitDup /\ [][NextDup]_vars

(***************************************************************************)
(* The command line tool, codestate.cli main().  The analyzer it calls is  *)
(* not part of this source tree: what the analyzer returns is taken from   *)
(* the project main is run on, following the specification's sections on   *)
(* file discovery and aggregation.                                         *)
(*                                                                         *)
(* main() imports sys, os, json and print_table inside its own body, which *)
(* makes these names local to main for its whole body: reading one of them *)
(* before the import statement that binds it has run raises                *)
(* UnboundLocalError.  os is read at lines 153, 301, 310, 364 and 381 and  *)
(* json at line 315 with no import before them, and sys is read at         *)
(* line 470 when the only imports of sys that can have run (lines 76, 284, *)
(* 288) are each followed by sys.exit.  Line 470 is therefore the last     *)
(* line any run reaches, and nothing below it is modelled.                 *)
(***************************************************************************)
MaxFlags == 2

PngExt == <<".", "p", "n", "g">>

EXCLUDE_EXTS ==
  {<<".", "x", "l", "s", "x">>, <<".", "x", "l", "s">>, <<".", "p", "d", "f">>,
   PngExt, <<".", "j", "p", "g">>, <<".", "j", "p", "e", "g">>,
   <<".", "g", "i", "f">>, <<".", "z", "i", "p">>, <<".", "t", "a", "r">>,
   <<".", "g", "z">>}

(* the files of the projects main is run on *)
FileA ==
  [path |-> "a.py", ext |-> PyExt, total_lines |-> 40, comment_lines |-> 4,
   complexity |-> 2]

FileB ==
  [path |-> "b.js", ext |-> JsExt, total_lines |-> 30, comment_lines |-> 0,
   complexity |-> 5]

FileBig ==
  [path |-> "big.py", ext |-> PyExt, total_lines |-> 400, comment_lines |-> 40,
   complexity |-> 1]

FileLogo ==
  [path |-> "logo.png", ext |-> PngExt, total_lines |-> 3, comment_lines |-> 0,
   complexity |-> 0]

(* a file on both thresholds (complexity 3.0, density 0.05) and an empty one *)
FileEdge ==
  [path |-> "edge.py", ext |-> PyExt, total_lines |-> 40, comment_lines |-> 2,
   complexity |-> 3]

FileEmpty ==
  [path |-> "empty.py", ext |-> PyExt, total_lines |-> 0, comment_lines |-> 0,
   complexity |-> 0]

HealthReport(n) == [available |-> TRUE, score |-> n]

Lines(n) == [known |-> TRUE, n |-> n]

NullLines == [known |-> FALSE, n |-> 0]

(* a repository with history: a.py has three commits, one of which could   *)
(* not be read, and a.py is modified in the working tree                   *)
ProjectClean ==
  [tree |-> <<FileA, FileB, FileLogo>>, violations |-> {},
   functions |-> <<[file |-> "a.py", lines |-> 10]>>, dead |-> {},
   report |-> HealthReport(90), routes |-> FALSE,
   changed |-> <<[path |-> "a.py", lines_added |-> 3, lines_deleted |-> 1],
                 [path |-> "logo.png", lines_added |-> 0, lines_deleted |-> 0]>>,
   trend |-> <<[date |-> "2024-01-03", lines |-> Lines(40), commit |-> "c3"],
               [date |-> "2024-01-02", lines |-> NullLines, commit |-> "c2"],
               [date |-> "2024-01-01", lines |-> Lines(12), commit |-> "c1"]>>,
   contributors |-> <<AuthorActive, AuthorOwner>>,
   suggestions |-> <<>>, style |-> <<>>, security |-> <<>>, advanced |-> <<>>]

(* no repository; a naming violation, an unused function and a route *)
ProjectNaming ==
  [tree |-> <<FileB, FileA>>, violations |-> {"a.py"},
   functions |-> <<[file |-> "a.py", lines |-> 10]>>, dead |-> {"unused_helper"},
   report |-> HealthReport(85), routes |-> TRUE,
   changed |-> <<>>, trend |-> <<>>, contributors |-> <<>>,
   suggestions |-> <<>>, style |-> <<[file |-> "a.py", line |-> 7]>>,
   security |-> <<[file |-> "b.js", line |-> 2]>>, advanced |-> <<>>]

(* a repository with one author; a large file, a large function and a low  *)
(* health score                                                            *)
ProjectLarge ==
  [tree |-> <<FileA, FileBig, FileB>>, violations |-> {},
   functions |-> <<[file |-> "b.js", lines |-> 60]>>, dead |-> {},
   report |-> HealthReport(70), routes |-> FALSE,
   changed |-> <<>>, trend |-> <<>>, contributors |-> <<AuthorOwner>>,
   suggestions |-> <<[path |-> "big.py"]>>, style |-> <<>>, security |-> <<>>,
   advanced |-> <<[file |-> "big.py", line |-> 1]>>]

ProjectEmpty ==
  [tree |-> <<>>, violations |-> {}, functions |-> <<>>, dead |-> {},
   report |-> NoReport, routes |-> FALSE,
   changed |-> <<>>, trend |-> <<>>, contributors |-> <<>>,
   suggestions |-> <<>>, style |-> <<>>, security |-> <<>>, advanced |-> <<>>]

(* no repository; nothing to report but the two files on the thresholds *)
ProjectEdge ==
  [tree |-> <<FileEdge, FileEmpty, FileB>>, violations |-> {}, functions |-> <<>>,
   dead |-> {}, report |-> HealthReport(95), routes |-> FALSE,
   changed |-> <<>>, trend |-> <<>>, contributors |-> <<>>,
   suggestions |-> <<>>, style |-> <<>>, security |-> <<>>, advanced |-> <<>>]

Projects == {ProjectClean, ProjectNaming, ProjectLarge, ProjectEmpty, ProjectEdge}

(* File discovery: the include filter of --ext when given, and never a     *)
(* file whose extension is on the deny-list                                *)
Discover(tree, filtered, file_types) ==
  SelectSeq(tree, LAMBDA f : /\ f.ext \notin EXCLUDE_EXTS
                             /\ filtered => f.ext \in file_types)

(* analyzer.analyze(): one aggregate per extension, in discovery order *)
RECURSIVE StatsOf(_)
StatsOf(fs) ==
  IF fs = <<>> THEN <<>>
  ELSE LET before == StatsOf(SubSeq(fs, 1, Len(fs) - 1))
           f      == fs[Len(fs)]
       IN  IF \E i \in 1..Len(before) : before[i].ext = f.ext
             THEN [i \in 1..Len(before) |->
                     IF before[i].ext = f.ext
                       THEN [before[i] EXCEPT !.file_count = @ + 1,
                                              !.total_lines = @ + f.total_lines,
                                              !.comment_lines = @ + f.comment_lines]
                       ELSE before[i]]
             ELSE Append(before, [ext |-> f.ext, file_count |-> 1,
                                  total_lines |-> f.total_lines,
                                  comment_lines |-> f.comment_lines])

(* get_large_warnings(threshold_file, threshold_func) *)
LargeFiles(fs, threshold_file) ==
  {fs[i].path : i \in {j \in 1..Len(fs) : fs[j].total_lines > threshold_file}}

LargeFunctions(p, threshold_func) ==
  {p.functions[i].file : i \in {j \in 1..Len(p.functions) : p.functions[j].lines > threshold_func}}

(***************************************************************************)
(* The parsed arguments: a function from the destinations of the options   *)
(* given on the command line to their values.                              *)
(***************************************************************************)
Switches ==
  {"all", "details", "file_age", "uncommitted", "failures_only", "tree", "version",
   "list_extensions", "html", "md", "json", "size", "refactor_suggest",
   "structure_mermaid", "openapi", "style_check", "contributors",
   "contributors_detail", "security", "ci", "health", "authors", "hotspot",
   "readme", "csv", "details_csv", "complexitymap", "summary", "maxmin"}

OnlyPy == <<"p", "y">>

OnlyDottedPadded == <<" ", ".", "p", "y", " ", ",", " ", ",", "j", "s">>

ValuedOptions ==
  {<<"top", 0>>, <<"top", 1>>, <<"top", 2>>, <<"top", -1>>,
   <<"only_lang", OnlyPy>>, <<"only_lang", OnlyDottedPadded>>,
   <<"ext", <<PyExt>>>>, <<"ext", <<PngExt, JsExt>>>>,
   <<"warnsize", <<>>>>, <<"warnsize", <<35, 5>>>>,
   <<"complexity_threshold", 1>>,
   <<"output", "custom.out">>, <<"trend", "a.py">>, <<"multi", <<"d1", "d2">>>>,
   <<"excel", "codestate_report.xlsx">>}

OptionInstances == {<<s, TRUE>> : s \in Switches} \cup ValuedOptions

RECURSIVE ArgSets(_)
ArgSets(n) ==
  IF n = 0 THEN {{}}
  ELSE LET fewer == ArgSets(n - 1)
       IN  fewer \cup {x \cup {i} : x \in {y \in fewer : Cardinality(y) = n - 1},
                                    i \in OptionInstances}

Namespace(given) == [o \in {p[1] : p \in given} |-> (CHOOSE p \in given : p[1] = o)[2]]

ArgLists ==
  {Namespace(given) :
     given \in {g \in ArgSets(MaxFlags) : \A p, q \in g : p[1] = q[1] => p = q}}

Given(a, o) == o \in DOMAIN a

(* args.top is an int or None; 0 and None are both false *)
TopOf(a) == IF Given(a, "top") THEN a["top"] ELSE 0

WarnsizeOf(a) == IF Given(a, "warnsize") THEN a["warnsize"] ELSE <<>>

HasOutput(a) == Given(a, "output")

(***************************************************************************)
(* What main prints or writes: one entry per table, report or message,     *)
(* with the rows it shows.                                                 *)
(***************************************************************************)
Stdout == "stdout"

Shown(what, shown) == [what |-> what, rows |-> shown, to |-> Stdout]

Message(what) == [what |-> what, rows |-> <<>>, to |-> Stdout]

WrittenTo(path, what, shown) == [what |-> what, rows |-> shown, to |-> path]

Unbound(name) == [what |-> "UnboundLocalError", rows |-> <<[name |-> name]>>, to |-> "stderr"]

Running(pc, d, out) == [pc |-> pc, data |-> d, out |-> out, status |-> -1]

Exited(d, out, code) == [pc |-> "exit", data |-> d, out |-> out, status |-> code]

(* an uncaught exception: the traceback is printed, the status is 1 *)
Crashed(d, out, name) == Exited(d, Append(out, Unbound(name)), 1)

(***************************************************************************)
(* Lines 159-201: the per-file list and its filters.                       *)
(***************************************************************************)
RECURSIVE Split(_, _, _)
Split(s, sep, part) ==
  IF s = <<>> THEN <<part>>
  ELSE IF Head(s) = sep THEN <<part>> \o Split(Tail(s), sep, <<>>)
  ELSE Split(Tail(s), sep, Append(part, Head(s)))

RECURSIVE LStripDots(_)
LStripDots(s) == IF s # <<>> /\ Head(s) = "." THEN LStripDots(Tail(s)) ELSE s

(* [f'.{e.strip().lstrip(".")}' for e in only_lang.split(',') if e.strip()] *)
only_exts(only_lang) ==
  LET entries == SelectSeq(Split(only_lang, ",", <<>>), LAMBDA e : Strip(e) # <<>>)
  IN  [i \in 1..Len(entries) |-> <<".">> \o LStripDots(Strip(entries[i]))]

SeqRange(s) == {s[i] : i \in 1..Len(s)}

(* sorted(data, key=total_lines, reverse=True): stable, longest first *)
RECURSIVE InsertByLines(_, _)
InsertByLines(sorted, f) ==
  IF sorted = <<>> THEN <<f>>
  ELSE IF Head(sorted).total_lines >= f.total_lines
    THEN <<Head(sorted)>> \o InsertByLines(Tail(sorted), f)
    ELSE <<f>> \o sorted

RECURSIVE SortedByLines(_)
SortedByLines(fs) ==
  IF fs = <<>> THEN <<>>
  ELSE InsertByLines(SortedByLines(SubSeq(fs, 1, Len(fs) - 1)), fs[Len(fs)])

(* s[:n] *)
Slice(s, n) ==
  IF n >= 0 THEN SubSeq(s, 1, IF n < Len(s) THEN n ELSE Len(s))
  ELSE SubSeq(s, 1, IF Len(s) + n > 0 THEN Len(s) + n ELSE 0)

failed_files_inclusive(a, p, discovered, d) ==
  LET warnsize       == WarnsizeOf(a)
      threshold_file == IF warnsize # <<>> THEN warnsize[1] ELSE 300
      threshold_func == IF Len(warnsize) > 1 THEN warnsize[2] ELSE 50
      threshold      == IF Given(a, "complexity_threshold")
                          THEN a["complexity_threshold"] ELSE 3
  IN  p.violations
        \cup LargeFiles(discovered, threshold_file)
        \cup LargeFunctions(p, threshold_func)
        \cup {d[i].path : i \in {j \in 1..Len(d) : d[j].complexity >= threshold}}
        \cup {d[i].path : i \in {j \in 1..Len(d) :
                                   \/ d[j].total_lines = 0
                                   \/ 20 * d[j].comment_lines < d[j].total_lines}}

(* lines 174-197 *)
failed_files(a, p, discovered, d) ==
  LET warnsize       == WarnsizeOf(a)
      threshold_file == IF warnsize # <<>> THEN warnsize[1] ELSE 300
      threshold_func == IF Len(warnsize) > 1 THEN warnsize[2] ELSE 50
      threshold      == IF Given(a, "complexity_threshold")
                          THEN a["complexity_threshold"] ELSE 3
  IN  p.violations
        \cup LargeFiles(discovered, threshold_file)
        \cup LargeFunctions(p, threshold_func)
        \cup {d[i].path : i \in {j \in 1..Len(d) : d[j].complexity > threshold}}
        \cup {d[i].path : i \in {j \in 1..Len(d) :
                                   \/ d[j].total_lines = 0
                                   \/ 20 * d[j].comment_lines < d[j].total_lines}}

file_details(a, p) ==
  Discover(p.tree, Given(a, "ext"), IF Given(a, "ext") THEN SeqRange(a["ext"]) ELSE {})

FilteredData(a, p) ==
  LET all      == file_details(a, p)
      by_lang  == IF Given(a, "only_lang")
                    THEN SelectSeq(all, LAMBDA f : f.ext \in SeqRange(only_exts(a["only_lang"])))
                    ELSE all
      by_top   == IF TopOf(a) # 0 THEN Slice(SortedByLines(by_lang), TopOf(a)) ELSE by_lang
      by_fail  == IF Given(a, "failures_only")
                    THEN SelectSeq(by_top, LAMBDA f : f.path \in failed_files(a, p, all, by_top))
                    ELSE by_top
  IN  SelectSeq(by_fail, LAMBDA f : f.ext \notin EXCLUDE_EXTS)

(***************************************************************************)
(* The stages of main(), each a function of the arguments, the project and *)
(* the run so far.                                                         *)
(***************************************************************************)
Start == Running("all", <<>>, <<>>)

Plus(r, events) == r.out \o events

StatsRows(a, p) == StatsOf(file_details(a, p))

(* str(n) of a natural number *)
RECURSIVE Str(_)
Str(n) == IF n < 10 THEN <<Digit(n)>> ELSE Str(n \div 10) \o <<Digit(n % 10)>>

(* the characters of the extensions above, in code point order *)
CodePointOrder == <<".", "g", "j", "n", "p", "s", "y">>

Ord(c) == CHOOSE i \in 1..Len(CodePointOrder) : CodePointOrder[i] = c

RECURSIVE LexLess(_, _)
LexLess(s, t) ==
  IF t = <<>> THEN FALSE
  ELSE IF s = <<>> THEN TRUE
  ELSE IF Head(s) = Head(t) THEN LexLess(Tail(s), Tail(t))
  ELSE Ord(Head(s)) < Ord(Head(t))

(* sorted(exts) of a set of strings *)
RECURSIVE SortedSet(_)
SortedSet(S) ==
  IF S = {} THEN <<>>
  ELSE LET least == CHOOSE x \in S : \A y \in S \ {x} : LexLess(x, y)
       IN  <<least>> \o SortedSet(S \ {least})

RECURSIVE RunOn(_, _, _)

NullFile == "/dev/null"

(* lines 81-111: the commands --all runs, each as a process of its own *)
all_commands ==
  <<Namespace({<<"details", TRUE>>}),
    Namespace({<<"html", TRUE>>, <<"output", NullFile>>}),
    Namespace({<<"csv", TRUE>>, <<"output", NullFile>>}),
    Namespace({<<"excel", "codestate_report.xlsx">>, <<"output", NullFile>>}),
    Namespace({<<"failures_only", TRUE>>}),
    Namespace({<<"top", 3>>}),
    Namespace({<<"only_lang", <<"p", "y", ",", "j", "s">>>>}),
    Namespace({<<"file_age", TRUE>>}),
    Namespace({<<"uncommitted", TRUE>>}),
    Namespace({<<"summary", TRUE>>, <<"output", NullFile>>}),
    Namespace({<<"langdist", TRUE>>}),
    Namespace({<<"maxmin", TRUE>>}),
    Namespace({<<"contributors", TRUE>>}),
    Namespace({<<"contributors_detail", TRUE>>}),
    Namespace({<<"hotspot", TRUE>>}),
    Namespace({<<"style_check", TRUE>>}),
    Namespace({<<"security", TRUE>>}),
    Namespace({<<"deadcode", TRUE>>}),
    Namespace({<<"dup", TRUE>>}),
    Namespace({<<"apidoc", TRUE>>}),
    Namespace({<<"naming", TRUE>>}),
    Namespace({<<"warnsize", <<>>>>}),
    Namespace({<<"complexitymap", TRUE>>}),
    Namespace({<<"typestats", TRUE>>}),
    Namespace({<<"structure_mermaid", TRUE>>, <<"output", NullFile>>}),
    Namespace({<<"tree", TRUE>>}),
    Namespace({<<"openapi", TRUE>>, <<"output", NullFile>>}),
    Namespace({<<"version", TRUE>>}),
    Namespace({<<"list_extensions", TRUE>>})>>

(* lines 113-127 with a break after the first command that fails: what a   *)
(* loop that gives up at the first error would print                       *)
MainAllStageFirstError(a, p, r, launches) ==
  IF Given(a, "all")
    THEN LET failed == SelectSeq(all_commands,
                                 LAMBDA c : ~launches \/ RunOn(c, p, Start).status # 0)
         IN  Exited(r.data,
                    Plus(r, IF failed = <<>>
                              THEN <<Message("All options no error")>>
                              ELSE <<Shown(IF launches THEN "Error in command:"
                                                       ELSE "Exception in command:",
                                           <<[cmd |-> Head(failed)]>>)>>),
                    0)
    ELSE Running("multi", r.data, r.out)

(* lines 74-131.  launches: subprocess.run starts the child processes; it  *)
(* raises for each of them when args.directory, their working directory,   *)
(* is not a directory (lines 115-121, 126-128).                            *)
MainAllStage(a, p, r, launches) ==
  IF Given(a, "all")
    THEN LET failed == SelectSeq(all_commands,
                                 LAMBDA c : ~launches \/ RunOn(c, p, Start).status # 0)
             errors == [i \in 1..Len(failed) |->
                          Shown(IF launches THEN "Error in command:"
                                            ELSE "Exception in command:",
                                <<[cmd |-> failed[i]]>>)]
         IN  Exited(r.data,
                    Plus(r, errors \o IF failed = <<>>
                                        THEN <<Message("All options no error")>>
                                        ELSE <<>>),
                    0)
    ELSE Running("multi", r.data, r.out)

RECURSIVE ChartsOf(_, _)
ChartsOf(dirs, rws) ==
  IF dirs = <<>> THEN <<>>
  ELSE <<Message("Analyzing"), Message(Head(dirs)),
         Shown("Lines of Code per File Type", rws),
         Shown("print_comment_density", rws)>> \o ChartsOf(Tail(dirs), rws)

(* lines 133-157: every directory of --multi holds the same project *)
MainMultiStage(a, p, r) ==
  IF Given(a, "multi")
    THEN LET charts == Plus(r, ChartsOf(a["multi"], StatsRows(a, p)))
         IN  IF HasOutput(a) THEN Crashed(StatsRows(a, p), charts, "os")
                             ELSE Exited(StatsRows(a, p), charts, 0)
    ELSE Running("analyze", r.data, r.out)

(* lines 159-201 *)
MainAnalyzeStage(a, p, r) == Running("early", FilteredData(a, p), r.out)

(* lines 222-244: the files of data that git diff --name-only names, with  *)
(* their numstat                                                           *)
UncommittedRows(p, d) ==
  LET named == {p.changed[i].path : i \in 1..Len(p.changed)}
      uncommitted == SelectSeq(d, LAMBDA f : f.path \in named)
  IN  [i \in 1..Len(uncommitted) |->
         p.changed[CHOOSE k \in 1..Len(p.changed) : p.changed[k].path = uncommitted[i].path]]

(* lines 203-274 *)
MainEarlyStage(a, p, r) ==
  LET d == r.data
  IN  IF Given(a, "file_age")
        THEN Exited(d, Plus(r, <<Shown("File Age Table:", d)>>), 0)
      ELSE IF Given(a, "uncommitted")
        THEN Exited(d, Plus(r, <<Shown("Uncommitted changes:", UncommittedRows(p, d))>>), 0)
      ELSE IF Given(a, "excel")
        THEN Exited(d, Plus(r, <<WrittenTo(a["excel"], "export_excel_report", d),
                                 Message("Excel report written to")>>), 0)
      ELSE IF Given(a, "details")
        THEN Exited(d, Plus(r, <<Shown("File Details:", d)>>), 0)
      ELSE IF TopOf(a) # 0 \/ Given(a, "failures_only")
        THEN Exited(d, Plus(r, <<Shown("Filtered File List:", d)>>), 0)
      ELSE IF Given(a, "tree")
        THEN Exited(d, Plus(r, <<Message("Project structure:"), Message("print_ascii_tree")>>), 0)
      ELSE Running("summary", d, r.out)

(* lines 276-296: data becomes the per-extension statistics *)
MainSummaryStage(a, p, r) ==
  LET d    == StatsRows(a, p)
      exts == SortedSet({f.ext : f \in SeqRange(file_details(a, p))})
  IN  IF Given(a, "version")
        THEN Exited(d, Plus(r, <<Shown("codestate version", <<[version |-> "__version__"]>>)>>), 0)
      ELSE IF Given(a, "list_extensions")
        THEN Exited(d, Plus(r, <<Message("File extensions found in project:"),
                                 Shown("extensions", [i \in 1..Len(exts) |-> [ext |-> exts[i]]])>>), 0)
      ELSE Running("export", d, r.out)

(* lines 298-324 *)
MainExportStage(a, p, r) ==
  IF Given(a, "html")
    THEN IF HasOutput(a) THEN Crashed(r.data, r.out, "os")
         ELSE Running("facet", r.data, Plus(r, <<Shown("html_report", r.data)>>))
  ELSE IF Given(a, "md")
    THEN IF HasOutput(a) THEN Crashed(r.data, r.out, "os")
         ELSE Running("facet", r.data, Plus(r, <<Shown("markdown_report", r.data)>>))
  ELSE IF Given(a, "json")
    THEN Crashed(r.data, r.out, "json")
  ELSE Running("facet", r.data, r.out)

TrendRow(t) ==
  [date |-> t.date, lines |-> IF t.lines.known THEN Str(t.lines.n) ELSE <<"-">>,
   commit |-> t.commit]

(* lines 413-445; none of the contributors above has a percentage that     *)
(* lies half way between two tenths                                        *)
detail_rows(ss) == SortedByScore(CHOOSE rs \in RowChoices(ss, 1, TotalScore(ss)) : TRUE)

(* lines 326-467 *)
MainFacetStage(a, p, r) ==
  LET d == r.data
  IN  IF Given(a, "size")
        THEN Exited(d, Plus(r, <<Shown("File Sizes and Stats", file_details(a, p))>>), 0)
      ELSE IF Given(a, "trend")
        THEN IF p.trend = <<>>
               THEN Exited(d, Plus(r, <<Message("No trend data found for")>>), 0)
               ELSE Exited(d, Plus(r, <<Message("Line count trend for"),
                                        Shown("Date       | Lines | Commit",
                                              [i \in 1..Len(p.trend) |-> TrendRow(p.trend[i])])>>), 0)
      ELSE IF Given(a, "refactor_suggest")
        THEN IF p.suggestions = <<>>
               THEN Exited(d, Plus(r, <<Message("No refactor suggestions found. All files look good!")>>), 0)
               ELSE Exited(d, Plus(r, <<Shown("Refactor Suggestions:", p.suggestions)>>), 0)
      ELSE IF Given(a, "structure_mermaid")
        THEN IF HasOutput(a) THEN Crashed(d, r.out, "os")
             ELSE Exited(d, Plus(r, <<Message("generate_mermaid_structure")>>), 0)
      ELSE IF Given(a, "openapi")
        THEN IF ~p.routes
               THEN Exited(d, Plus(r, <<Message("No Flask/FastAPI routes found for OpenAPI generation.")>>), 0)
             ELSE IF HasOutput(a) THEN Crashed(d, r.out, "os")
             ELSE Exited(d, Plus(r, <<Message("get_openapi_spec")>>), 0)
      ELSE IF Given(a, "style_check")
        THEN IF p.style = <<>>
               THEN Exited(d, Plus(r, <<Message("No code style issues found!")>>), 0)
               ELSE Exited(d, Plus(r, <<Shown("Code Style Issues:", p.style)>>), 0)
      ELSE IF Given(a, "contributors")
        THEN IF p.contributors = <<>>
               THEN Exited(d, Plus(r, <<Message("No contributor statistics found (not a git repo or no data).")>>), 0)
               ELSE Exited(d, Plus(r, <<Shown("Contributor Statistics:", p.contributors)>>), 0)
      ELSE IF Given(a, "contributors_detail")
        THEN IF p.contributors = <<>>
               THEN Exited(d, Plus(r, <<Message("No contributor statistics found (not a git repo or no data).")>>), 0)
               ELSE Exited(d, Plus(r, <<Shown("Contributor Detailed Statistics:",
                                              detail_rows(p.contributors))>>), 0)
      ELSE IF Given(a, "security")
        THEN IF p.security = <<>> /\ p.advanced = <<>>
               THEN Exited(d, Plus(r, <<Message("No security issues detected.")>>), 0)
               ELSE Exited(d, Plus(r, (IF p.security # <<>>
                                         THEN <<Shown("[Basic Security Issues]", p.security)>>
                                         ELSE <<>>)
                                      \o (IF p.advanced # <<>>
                                            THEN <<Shown("[Advanced Security Issues]", p.advanced)>>
                                            ELSE <<>>)), 0)
      ELSE Running("default", d, r.out)

(* lines 937-944: the options that keep the fallback table away; args.top  *)
(* counts when it is not 0                                                 *)
FallbackSilencers ==
  {"details", "html", "csv", "excel", "top", "failures_only", "file_age", "uncommitted",
   "md", "json", "size", "trend", "refactor_suggest", "structure_mermaid", "openapi",
   "style_check", "contributors", "contributors_detail", "security", "groupdir",
   "groupext", "groupdir_csv", "groupext_csv", "ci", "summary", "readme",
   "autofix_suggest", "lang_card_svg", "badge_sustainability", "badges", "naming",
   "apidoc", "dup", "maxmin", "authors", "langdist", "complexitymap", "deadcode",
   "typestats", "multi"}

(* main as it would end were sys bound at line 470: the test of lines      *)
(* 937-948 is reached and prints the fallback table                        *)
MainDefaultStageSysBound(a, p, r) ==
  IF /\ r.data # <<>>
     /\ \A o \in FallbackSilencers \cap DOMAIN a : o = "top" /\ a[o] = 0
    THEN Exited(r.data, Plus(r, <<Shown("File List:", r.data)>>), 0)
    ELSE Exited(r.data, r.out, 0)

(* line 470: sys is a local name of main that no statement has bound *)
MainDefaultStage(a, p, r) == Crashed(r.data, r.out, "sys")

StageOf(a, p, r) ==
  CASE r.pc = "all"     -> MainAllStage(a, p, r, TRUE)
    [] r.pc = "multi"   -> MainMultiStage(a, p, r)
    [] r.pc = "analyze" -> MainAnalyzeStage(a, p, r)
    [] r.pc = "early"   -> MainEarlyStage(a, p, r)
    [] r.pc = "summary" -> MainSummaryStage(a, p, r)
    [] r.pc = "export"  -> MainExportStage(a, p, r)
    [] r.pc = "facet"   -> MainFacetStage(a, p, r)
    [] r.pc = "default" -> MainDefaultStage(a, p, r)

(* a whole run of main, as a child process of --all makes it *)
RunOn(a, p, r) == IF r.pc = "exit" THEN r ELSE RunOn(a, p, StageOf(a, p, r))

CliInit ==
  /\ cargs \in ArgLists
  /\ project \in Projects
  /\ cpc = "all"
  /\ data = <<>>
  /\ cout = <<>>
  /\ status = -1

Current == [pc |-> cpc, data |-> data, out |-> cout, status |-> status]

Becomes(r) ==
  /\ cpc' = r.pc
  /\ data' = r.data
  /\ cout' = r.out
  /\ status' = r.status
  /\ UNCHANGED <<cargs, project, classifierVars, analyzeVars, workloadVars, reporterVars, dupVars>>

MainAll ==
  /\ cpc = "all"
  /\ \E launches \in (IF Given(cargs, "all") THEN BOOLEAN ELSE {TRUE}) :
       Becomes(MainAllStage(cargs, project, Current, launches))

MainMulti ==
  /\ cpc = "multi"
  /\ Becomes(MainMultiStage(cargs, project, Current))

MainAnalyze ==
  /\ cpc = "analyze"
  /\ Becomes(MainAnalyzeStage(cargs, project, Current))

MainEarlyOutput ==
  /\ cpc = "early"
  /\ Becomes(MainEarlyStage(cargs, project, Current))

MainSummary ==
  /\ cpc = "summary"
  /\ Becomes(MainSummaryStage(cargs, project, Current))

MainExport ==
  /\ cpc = "export"
  /\ Becomes(MainExportStage(cargs, project, Current))

MainFacet ==
  /\ cpc = "facet"
  /\ Becomes(MainFacetStage(cargs, project, Current))

MainDefaultChart ==
  /\ cpc = "default"
  /\ Becomes(MainDefaultStage(cargs, project, Current))

NextCli ==
  \/ MainAll
  \/ MainMulti
  \/ MainAnalyze
  \/ MainEarlyOutput
  \/ MainSummary
  \/ MainExport
  \/ MainFacet
  \/ MainDefaultChart

InitCli == ClassifierIdle /\ AnalyzeIdle /\ WorkloadIdle /\ ReporterIdle /\ DupIdle /\ CliInit

SpecCli == InitCli /\ [][NextCli]_vars

(***************************************************************************)
(* The two tools of the repository side by side: a behaviour is a run of   *)
(* the command line tool or a run of the pull request reporter.            *)
(***************************************************************************)
InitTools == InitCli \/ InitReporter

NextTools == NextCli \/ NextReporter

SpecTools == InitTools /\ [][NextTools]_vars

(***************************************************************************)
(* Vocabulary of the claims about the classifier.                          *)
(***************************************************************************)
IsBlank(raw) == \A i \in 1..Len(raw) : raw[i] \in Whitespace

LastText == Strip(last.line)

MatchingEnd(tok) == IF tok = MarkupOpen THEN MarkupClose
                    ELSE IF tok = SlashStar THEN StarSlash
                    ELSE tok

RecognisedStart(e, s) ==
  IF Lower(e) = PyExt
    THEN StartsWith(s, TripleSingle) \/ StartsWith(s, TripleDouble)
    ELSE StartsWith(s, SlashStar) \/ StartsWith(s, MarkupOpen)

ClosedOnSameLine(s) ==
  LET tok == StartTokenOf(s)
  IN  /\ tok # NoToken
      /\ Contains(SubSeq(s, Len(tok) + 1, Len(s)), MatchingEnd(tok))

RECURSIVE Occurrences(_, _, _)
Occurrences(s, tok, i) ==
  IF i + Len(tok) - 1 > Len(s) THEN 0
  ELSE IF SubSeq(s, i, i + Len(tok) - 1) = tok
    THEN 1 + Occurrences(s, tok, i + Len(tok))
    ELSE Occurrences(s, tok, i + 1)

RECURSIVE SumOccurrences(_, _)
SumOccurrences(toks, s) ==
  IF toks = {} THEN 0
  ELSE LET tok == CHOOSE t \in toks : TRUE
       IN  Occurrences(s, tok, 1) + SumOccurrences(toks \ {tok}, s)

OccurrenceScoreOf ==
  [raw \in LineVocabulary |-> SumOccurrences(COMPLEXITY_TOKENS, PaddedLower(raw))]

(***************************************************************************)
(* C1.  A synthetic file of N blank lines, C line-comment lines, K code    *)
(* lines and one embedded 3-line block comment is reported with            *)
(* total_lines = N+C+K+3 and exactly the C+3 comment lines counted         *)
(* (comment_lines >= C+3, no code line and no blank line among them), for  *)
(* every extension and every way of writing the block delimiters.          *)
(***************************************************************************)
C1_SyntheticFileCounts ==
  (~shape.other /\ shape.block = 3) =>
     /\ total_lines = shape.blank + shape.linec + shape.code + 3
     /\ comment = shape.linec + 3

(***************************************************************************)
(* C2.  In state Normal a line that starts with a block-comment-start      *)
(* token and closes the block on that same line counts as one comment      *)
(* line and leaves the state Normal.                                       *)
(***************************************************************************)
C2_OneLineBlockStaysNormal ==
  (last.read /\ ~last.in_block /\ RecognisedStart(ext, LastText)
     /\ ClosedOnSameLine(LastText)) =>
     (last.d_comment = 1 /\ ~in_block)

(***************************************************************************)
(* C3.  A block comment ends on a line exactly when that line contains the *)
(* end token of the syntax that opened it.                                 *)
(***************************************************************************)
C3_BlockEndsOnMatchingToken ==
  (last.read /\ last.in_block /\ ~IsBlank(last.line)) =>
     (~in_block <=> Contains(LastText, MatchingEnd(last.opener)))

(***************************************************************************)
(* C4.  In state InBlockComment every non-blank line counts as exactly one *)
(* comment line, the line carrying a block-end token included, and the     *)
(* state becomes Normal on such a line and on no other.                    *)
(***************************************************************************)
C4_InBlockCountsEveryLine ==
  (last.read /\ last.in_block /\ ~IsBlank(last.line)) =>
     /\ last.d_comment = 1
     /\ ~in_block <=> (\/ Contains(LastText, StarSlash)
                       \/ Contains(LastText, TripleSingle)
                       \/ Contains(LastText, TripleDouble))

C4_Witness ==
  /\ last.read /\ last.in_block /\ ~in_block
  /\ last.line = CloseThenCodeLine
  /\ last.d_comment = 1

(***************************************************************************)
(* C5.  A blank line changes neither the comment count nor the classifier  *)
(* state, adds nothing to the complexity, and counts in total_lines.       *)
(***************************************************************************)
C5_BlankLineIsNeutral ==
  (last.read /\ IsBlank(last.line)) =>
     /\ last.d_comment = 0
     /\ in_block = last.in_block
     /\ last.d_score = 0
     /\ total_lines = last.total + 1

C5_Witness ==
  /\ last.read /\ last.line = WhiteLine
  /\ last.in_block /\ in_block
  /\ total_lines >= 2

(***************************************************************************)
(* C6.  Each line adds to the complexity score the number of occurrences   *)
(* of the vocabulary tokens in it: a token that appears k times adds k.    *)
(***************************************************************************)
C6_ScoreSumsOccurrences ==
  last.read => last.d_score = OccurrenceScoreOf[last.line]

(***************************************************************************)
(* C7.  A line counted as a comment adds nothing to the complexity score.  *)
(***************************************************************************)
C7_CommentLinesAddNoComplexity ==
  (last.read /\ last.d_comment = 1) => last.d_score = 0

(***************************************************************************)
(* C8.  A file that cannot be read is not fatal: after the UTF-8 read and  *)
(* the fallback read have both failed analyze_files still emits a record   *)
(* for the file, all of its metrics zero, and goes on with the next file;  *)
(* when only the UTF-8 read failed the fallback's lines are analysed.      *)
(***************************************************************************)
C8_UnreadableFileIsZeroRecord ==
  /\ Len(per_file) = pos - 1
  /\ Len(reads) = pos - 1
  /\ \A i \in 1..Len(per_file) :
       /\ per_file[i].file = files[i]
       /\ reads[i] = "fail" =>
            /\ per_file[i].total_lines = 0
            /\ per_file[i].comment_lines = 0
            /\ per_file[i].function_count = 0
            /\ per_file[i].complexity = 0
       /\ reads[i] = "latin1" => per_file[i].total_lines = Len(Content[files[i]])
  /\ apc = "returned" => Len(per_file) = Len(files)

C8_Witness ==
  /\ apc = "returned"
  /\ Len(files) = 3
  /\ reads = <<"fail", "latin1", "utf8">>
  /\ per_file[1].total_lines = 0
  /\ per_file[2].total_lines > 0
  /\ per_file[3].function_count > 0

(***************************************************************************)
(* C9.  Every per-file record of the PR reporter has exactly the fields of *)
(* the engine's per-file record that the CLI tables read.                  *)
(***************************************************************************)
EngineFields ==
  {"path", "ext", "total_lines", "comment_lines", "function_count", "complexity",
   "function_avg_length", "todo_count", "blank_lines", "comment_only_lines",
   "code_lines"}

C9_ReporterRecordHasEngineFields ==
  \A i \in 1..Len(per_file) : DOMAIN per_file[i] = EngineFields

(***************************************************************************)
(* C10.  The printed workload_percent values of a non-empty contributor    *)
(* list with a positive total score sum to 100% within half a percentage   *)
(* point (5 tenths), whatever the number of authors.                       *)
(***************************************************************************)
RECURSIVE SumPercent(_)
SumPercent(rs) ==
  IF rs = <<>> THEN 0 ELSE Head(rs).workload_percent + SumPercent(Tail(rs))

Distance(a, b) == IF a >= b THEN a - b ELSE b - a

C10_PercentSumWithinHalfPoint ==
  (wout = "table" /\ TotalScore(stats) > 0) =>
     Distance(SumPercent(rows), 1000) <= 5

(***************************************************************************)
(* C10 as amended.  The printed values sum to 100% within 0.05 percentage  *)
(* points per author (half a tenth each), hence within half a percentage   *)
(* point for lists of at most 10 authors.                                  *)
(***************************************************************************)
C10_PercentSumWithinRounding ==
  (wout = "table" /\ TotalScore(stats) > 0) =>
     /\ Len(rows) = Len(stats)
     /\ 2 * Distance(SumPercent(rows), 1000) <= Len(rows)
     /\ Len(rows) <= 10 => Distance(SumPercent(rows), 1000) <= 5

C10_Witness ==
  /\ wout = "table"
  /\ TotalScore(stats) > 0
  /\ Len(rows) = 7
  /\ SumPercent(rows) = 1001


(***************************************************************************)
(* C11.  In the --contributors-detail table each author's score is         *)
(* 0.25 line_count + 0.20 commit_count + 0.25 added_lines +                *)
(* 0.15 deleted_lines + 0.05 active_days_last_30 + 0.10 max_file_lines     *)
(* (in twentieths: 5, 4, 5, 3, 1, 2), a missing or non-numeric field       *)
(* counting as 0; the printed share is score / total to the nearest tenth  *)
(* of a percent, 0.0 for every author when the total is 0; and the rows    *)
(* are in non-increasing score order, one row per author.                  *)
(***************************************************************************)
Counted(s, f) == IF f \in DOMAIN s /\ s[f].kind = "num" THEN s[f].val ELSE 0

ClaimedScore(s) ==
  5 * Counted(s, "line_count") + 4 * Counted(s, "commit_count")
    + 5 * Counted(s, "added_lines") + 3 * Counted(s, "deleted_lines")
    + 1 * Counted(s, "active_days_last_30") + 2 * Counted(s, "max_file_lines")

RECURSIVE ClaimedTotal(_)
ClaimedTotal(ss) ==
  IF ss = <<>> THEN 0 ELSE ClaimedScore(Head(ss)) + ClaimedTotal(Tail(ss))

C11_WorkloadTable ==
  wout = "table" =>
    LET total == ClaimedTotal(stats)
    IN  /\ Len(rows) = Len(stats)
        /\ {rows[i].author : i \in 1..Len(rows)} = 1..Len(stats)
        /\ \A i \in 1..Len(rows) :
             /\ rows[i].score = ClaimedScore(stats[rows[i].author])
             /\ total = 0 => rows[i].workload_percent = 0
             /\ total > 0 =>
                  2 * Distance(rows[i].workload_percent * total, 1000 * rows[i].score)
                    <= total
        /\ \A i, j \in 1..Len(rows) : i < j => rows[i].score >= rows[j].score

C11_Witness ==
  /\ wout = "table"
  /\ Len(rows) = 3
  /\ stats = <<AuthorIdle, AuthorDeleter, AuthorOwner>>
  /\ <<rows[1].author, rows[2].author, rows[3].author>> = <<3, 2, 1>>
  /\ <<rows[1].score, rows[2].score, rows[3].score>> = <<9, 3, 0>>
  /\ <<rows[1].workload_percent, rows[2].workload_percent, rows[3].workload_percent>>
       = <<750, 250, 0>>


(***************************************************************************)
(* C19.  analyze_files is deterministic and keeps nothing between calls:   *)
(* a second call on the same ordered list, reading the same text from      *)
(* every file, returns the same per-file records in the same order and the *)
(* same per-extension aggregates as the first call.                        *)
(***************************************************************************)
SameTextRead ==
  /\ Len(runs) = 1
  /\ Len(reads) = Len(runs[1].reads)
  /\ \A i \in 1..Len(reads) :
       read_lines(files[i], reads[i]) = read_lines(files[i], runs[1].reads[i])

Listed == {files[i] : i \in 1..Len(files)}

C17_ReporterAlwaysReports ==
  /\ rc \in {-1, 0}
  /\ rpc # "done" =>
       \/ rpc \in {"start", "list"}
       \/ rpc = "analyze" /\ apc \in {"loop", "returned"} /\ pos <= Len(files) + 1
  /\ rpc \in {"analyze", "done"} =>
       /\ gitlog.range.ran
       /\ gitlog.range.code = 0 => ~gitlog.plain.ran
       /\ gitlog.range.code # 0 =>
            /\ gitlog.plain.ran
            /\ Listed \subseteq Named(gitlog.plain.out)
            /\ \A n \in Named(gitlog.plain.out) :
                 (n \in present /\ Lower(Suffix(n)) \in SUPPORTED_EXTS) => n \in Listed
            /\ gitlog.plain.out = <<>> => files = <<>>
  /\ rpc = "done" =>
       /\ DOMAIN written = {"md", "html", "json"}
       /\ rc = 0
       /\ files = <<>> => written.md.body = "No supported code changes detected."
       /\ files # <<>> => written.md.body = "tables"

C17_Witness ==
  /\ rpc = "done"
  /\ gitlog.range.code # 0
  /\ gitlog.plain.ran
  /\ gitlog.plain.out = <<>>
  /\ files = <<>>
  /\ DOMAIN written = {"md", "html", "json"}
  /\ written.md.body = "No supported code changes detected."
  /\ rc = 0


(***************************************************************************)
(* C20.  Two files that each contain the identical 6-line block at         *)
(* different offsets and share nothing else produce exactly one duplicate  *)
(* group with 2 members; two files sharing only an identical 4-line block  *)
(* produce no group.                                                       *)
(***************************************************************************)
DifferentOffsets == layout.lead[1] # layout.lead[2]

C20_SixLinesOneGroup ==
  (dpc = "done" /\ DifferentOffsets) =>
     /\ layout.shared = 6 => Len(groups) = 1 /\ Len(groups[1].occs) = 2
     /\ layout.shared = 4 => Len(groups) = 0

(***************************************************************************)
(* C20 as amended.  Two files sharing only a run of n identical lines at   *)
(* different offsets produce one group per 5-line window of the run, that  *)
(* is n - 4 groups for n >= 5 (two groups for a 6-line block) and none for *)
(* n <= 4; every group has 2 members, one in each file, at the same        *)
(* distance from the start of the run.                                     *)
(***************************************************************************)
C20_OneGroupPerSharedWindow ==
  (dpc = "done" /\ DifferentOffsets) =>
     /\ layout.shared <= 4 => Len(groups) = 0
     /\ layout.shared >= 5 => Len(groups) = layout.shared - 4
     /\ \A g \in 1..Len(groups) :
          /\ Len(groups[g].occs) = 2
          /\ groups[g].occs[1].path = 1
          /\ groups[g].occs[2].path = 2
          /\ groups[g].occs[1].start_line = layout.lead[1] + g
          /\ groups[g].occs[2].start_line = layout.lead[2] + g

C20_Witness ==
  /\ dpc = "done"
  /\ DifferentOffsets
  /\ layout.shared = 6
  /\ layout.padded
  /\ Len(groups) = 2
  /\ Len(groups[1].occs) = 2
  /\ Len(groups[2].occs) = 2

(***************************************************************************)
(* C12.  When --ci is given, the exit status is non-zero exactly when a    *)
(* major issue exists (health score below 80, a naming violation, a large  *)
(* file or function, an unused definition), whatever other options are     *)
(* given.                                                                  *)
(***************************************************************************)
MajorIssue(a, p) ==
  \/ p.report.available /\ p.report.score < 80
  \/ p.violations # {}
  \/ LargeFiles(file_details(a, p), 300) # {}
  \/ LargeFunctions(p, 50) # {}
  \/ p.dead # {}

C12_CiExitReflectsIssues ==
  (cpc = "exit" /\ Given(cargs, "ci")) =>
    (status = 0 <=> ~MajorIssue(cargs, project))

(***************************************************************************)
(* C13.  When --version is given, the run prints the version and nothing   *)
(* else and exits with status 0, whatever other options are given.         *)
(***************************************************************************)
VersionLine == Shown("codestate version", <<[version |-> "__version__"]>>)

C13_VersionOnlyPrintsVersion ==
  (cpc = "exit" /\ Given(cargs, "version")) =>
    (status = 0 /\ cout = <<VersionLine>>)

(***************************************************************************)
(* C14.  With --only-lang L every output of the run is computed from files *)
(* with an extension in L only: no row that names an extension names one   *)
(* outside L, where an entry of L counts with or without its leading dot   *)
(* and surrounding whitespace, and empty entries do not count.             *)
(***************************************************************************)
LanguagesOf(a) == SeqRange(only_exts(a["only_lang"]))

RowsOutside(allowed) ==
  {<<i, k>> \in (1..Len(cout)) \X (1..3) :
     /\ k <= Len(cout[i].rows)
     /\ "ext" \in DOMAIN cout[i].rows[k]
     /\ cout[i].rows[k].ext \notin allowed}

C14_OnlyLangRestrictsEveryOutput ==
  Given(cargs, "only_lang") => RowsOutside(LanguagesOf(cargs)) = {}

(***************************************************************************)
(* C16.  A run that asks for git-derived facets only (--authors,           *)
(* --hotspot, --contributors, --contributors-detail, --trend) raises no    *)
(* exception; when the facet has no data it prints the facet's no-data     *)
(* message, and --trend with data prints one row per history entry in the  *)
(* order received, a null line count shown as "-".                         *)
(***************************************************************************)
GitFacets == {"authors", "hotspot", "contributors", "contributors_detail", "trend"}

Printed(what) == \E i \in 1..Len(cout) : cout[i].what = what /\ cout[i].to = Stdout

TrendShown ==
  \E i \in 1..Len(cout) :
    /\ cout[i].what = "Date       | Lines | Commit"
    /\ Len(cout[i].rows) = Len(project.trend)
    /\ \A k \in 1..Len(project.trend) :
         /\ cout[i].rows[k].commit = project.trend[k].commit
         /\ ~project.trend[k].lines.known => cout[i].rows[k].lines = <<"-">>

C16_GitFacetsNeverRaise ==
  (cpc = "exit" /\ DOMAIN cargs # {} /\ DOMAIN cargs \subseteq GitFacets) =>
    /\ status = 0
    /\ ~Printed("UnboundLocalError")
    /\ (Given(cargs, "trend") /\ project.trend = <<>>) => Printed("No trend data found for")
    /\ (Given(cargs, "trend") /\ project.trend # <<>>) => TrendShown
    /\ (~Given(cargs, "trend") /\ project.contributors = <<>>
          /\ (Given(cargs, "contributors") \/ Given(cargs, "contributors_detail")))
         => Printed("No contributor statistics found (not a git repo or no data).")

(***************************************************************************)
(* C18.  With --readme the generated README is written to a file: to the   *)
(* path of --output when given, else to README.md or, when that exists, to *)
(* README.codestate.md.                                                    *)
(***************************************************************************)
ReadmeWritten ==
  \E i \in 1..Len(cout) :
    /\ cout[i].what = "generate_auto_readme"
    /\ IF HasOutput(cargs) THEN cout[i].to = cargs["output"]
       ELSE cout[i].to \in {"README.md", "README.codestate.md"}

C18_ReadmeIsWritten ==
  (cpc = "exit" /\ Given(cargs, "readme")) => ReadmeWritten

(***************************************************************************)
(* C15.  No row of a per-file output of the command line tool (details     *)
(* table, filtered list, file-age table, Excel export, size table) has an  *)
(* extension of the binary/asset deny-list, whatever --ext names; and no   *)
(* file the pull request reporter analyses has such an extension.          *)
(***************************************************************************)
ClaimedDenyList ==
  {<<".", "x", "l", "s", "x">>, <<".", "x", "l", "s">>, <<".", "p", "d", "f">>,
   <<".", "p", "n", "g">>, <<".", "j", "p", "g">>, <<".", "j", "p", "e", "g">>,
   <<".", "g", "i", "f">>, <<".", "z", "i", "p">>, <<".", "t", "a", "r">>,
   <<".", "g", "z">>}

PerFileOutputs ==
  {"File Details:", "Filtered File List:", "File Age Table:", "export_excel_report",
   "File Sizes and Stats"}

OwnOutputOptions == Switches \cup {"top", "trend", "multi", "excel", "warnsize"}

Without(a, o) == [x \in DOMAIN a \ {o} |-> a[x]]

ClaimedFileLimit(a) ==
  IF Given(a, "warnsize") /\ Len(a["warnsize"]) >= 1 THEN a["warnsize"][1] ELSE 300

ClaimedFunctionLimit(a) ==
  IF Given(a, "warnsize") /\ Len(a["warnsize"]) >= 2 THEN a["warnsize"][2] ELSE 50

ClaimedComplexityLimit(a) ==
  IF Given(a, "complexity_threshold") THEN a["complexity_threshold"] ELSE 3

LowDensity(f) == f.total_lines = 0 \/ 100 * f.comment_lines < 5 * f.total_lines

ClaimedFailing(a, p, f) ==
  \/ f.path \in p.violations
  \/ f.total_lines > ClaimedFileLimit(a)
  \/ \E i \in 1..Len(p.functions) :
       p.functions[i].file = f.path /\ p.functions[i].lines > ClaimedFunctionLimit(a)
  \/ f.complexity > ClaimedComplexityLimit(a)
  \/ LowDensity(f)

ClaimedFailures(a, p) ==
  SelectSeq(FilteredData(Without(a, "failures_only"), p), LAMBDA f : ClaimedFailing(a, p, f))

FileTables == {"File Details:", "Filtered File List:", "File Age Table:", "export_excel_report"}

C22_FailuresOnlyKeepsExactlyFailing ==
  Given(cargs, "failures_only") =>
    /\ cpc = "early" => data = ClaimedFailures(cargs, project)
    /\ \A i \in 1..Len(cout) :
         cout[i].what \in FileTables => cout[i].rows = ClaimedFailures(cargs, project)

(* the table of a --failures-only run keeps the empty file and drops the   *)
(* file that sits exactly on both thresholds                               *)
C22_Witness ==
  /\ cpc = "exit"
  /\ Given(cargs, "failures_only")
  /\ project = ProjectEdge
  /\ \E i \in 1..Len(cout) :
       /\ cout[i].what = "Filtered File List:"
       /\ FileEmpty \in SeqRange(cout[i].rows)
       /\ FileEdge \notin SeqRange(cout[i].rows)

(***************************************************************************)
(* C23.  With --top N, for every integer N, a per-file table of the run    *)
(* has exactly min(N, E) rows, E being the number of files that pass the   *)
(* other filters (--only-lang, --failures-only, the deny-list), and they   *)
(* are the eligible files with the most lines, largest first.              *)
(***************************************************************************)
Eligible(a, p) == FilteredData(Without(a, "top"), p)

Least(m, n) == IF m <= n THEN m ELSE n

ClaimedTop(a, p) ==
  SubSeq(SortedByLines(Eligible(a, p)), 1, Least(a["top"], Len(Eligible(a, p))))

C23_TopShowsLargest ==
  Given(cargs, "top") =>
    \A i \in 1..Len(cout) :
      cout[i].what \in FileTables => cout[i].rows = ClaimedTop(cargs, project)


(***************************************************************************)
(* --all                                                                   *)
(***************************************************************************)
AllReports == {"Error in command:", "Exception in command:"}

(* the commands reported as failed or raised, in the order printed *)
Reported == SelectSeq(cout, LAMBDA e : e.what \in AllReports)

PlaceOf(c) == CHOOSE i \in 1..Len(all_commands) : all_commands[i] = c

(* the process of command c returns a status other than 0 *)
ChildFails(c) == RunOn(c, project, Start).status # 0

Raised == \E i \in 1..Len(cout) : cout[i].what = "Exception in command:"

(* C24: a run with --all ends with status 0 and has made no analysis; it   *)
(* reports commands of the list only, each at most once and in list order; *)
(* every command whose process returned a status other than 0 is reported, *)
(* whatever failed before it, and every command is reported when starting  *)
(* the processes raises; "All options no error" is printed exactly when    *)
(* nothing is reported; and nothing else is printed.                       *)
C24_AllRunsEveryCommand ==
  (cpc = "exit" /\ Given(cargs, "all")) =>
    /\ status = 0
    /\ data = <<>>
    /\ \A i \in 1..Len(Reported) :
         \E j \in 1..Len(all_commands) : Reported[i].rows = <<[cmd |-> all_commands[j]]>>
    /\ \A i, j \in 1..Len(Reported) :
         i < j => PlaceOf(Reported[i].rows[1].cmd) < PlaceOf(Reported[j].rows[1].cmd)
    /\ \A j \in 1..Len(all_commands) :
         (Raised \/ ChildFails(all_commands[j]))
           <=> \E i \in 1..Len(Reported) : Reported[i].rows[1].cmd = all_commands[j]
    /\ Printed("All options no error") <=> Reported = <<>>
    /\ \A i \in 1..Len(cout) :
         cout[i].what \in AllReports \cup {"All options no error"}

(* --all has ended with status 0 although several commands failed, a       *)
(* command after the first failure is among those reported, and the        *)
(* message is not printed                                                  *)
C24_Witness ==
  /\ cpc = "exit"
  /\ Given(cargs, "all")
  /\ status = 0
  /\ ~Raised
  /\ Len(Reported) >= 2
  /\ Reported[1].rows[1].cmd = all_commands[2]
  /\ Reported[Len(Reported)].rows[1].cmd = all_commands[25]
  /\ ~Printed("All options no error")


(***************************************************************************)
(* C25.  In state Normal a non-blank line that starts with the line        *)
(* comment token of the file's extension counts as exactly one comment     *)
(* line and leaves the state Normal; the token is `#` for .py (the         *)
(* extension is lower-cased first, line 59) and `//` for every other       *)
(* extension; a line that starts with `#` in another file and a line that  *)
(* starts with `//` or `/*` in a .py file are not counted and leave the    *)
(* state Normal.                                                           *)
(***************************************************************************)
IsPy == Lower(ext) = PyExt

LineCommentToken == IF IsPy THEN Hash ELSE SlashSlash

C25_LineCommentTokenPerExtension ==
  (last.read /\ ~last.in_block /\ ~IsBlank(last.line)) =>
     /\ StartsWith(LastText, LineCommentToken) =>
          last.d_comment = 1 /\ ~in_block
     /\ (~IsPy /\ StartsWith(LastText, Hash)) =>
          last.d_comment = 0 /\ ~in_block
     /\ (IsPy /\ (StartsWith(LastText, SlashSlash) \/ StartsWith(LastText, SlashStar))) =>
          last.d_comment = 0 /\ ~in_block

(* a shell file of two lines: the `//` line was counted, the `#` line that *)
(* follows it in state Normal is not                                       *)
C25_Witness ==
  /\ ext = ShExt
  /\ last.read /\ ~last.in_block /\ ~in_block
  /\ last.line = HashLine
  /\ last.d_comment = 0
  /\ total_lines = 2
  /\ comment = 1


(***************************************************************************)
(* list_changed_files                                                      *)
(***************************************************************************)
RECURSIVE IsSubsequence(_, _)
IsSubsequence(s, t) ==
  IF s = <<>> THEN TRUE
  ELSE IF t = <<>> THEN FALSE
  ELSE IF Head(s) = Head(t) THEN IsSubsequence(Tail(s), Tail(t))
  ELSE IsSubsequence(s, Tail(t))

(* the output of the git diff the list was taken from *)
DiffOutput == IF gitlog.range.code # 0 THEN gitlog.plain.out ELSE gitlog.range.out

NonEmptyLines == SelectSeq(DiffOutput, LAMBDA l : l # <<>>)

(* C26: the list of changed files is a subsequence, in git's order, of the *)
(* non-empty lines git printed, and every path in it has a supported       *)
(* extension, compared in lower case, and is a regular file.               *)
C26_ListedAreGitLines ==
  rpc \in {"analyze", "done"} =>
    /\ IsSubsequence(files, NonEmptyLines)
    /\ \A i \in 1..Len(files) :
         /\ Lower(Suffix(files[i])) \in SUPPORTED_EXTS
         /\ files[i] \in present

====
